---------------------------- MODULE Spec2Model ----------------------------
(***************************************************************************)
(* The catalog write/read pipeline of the product catalog backend:         *)
(* the Express route handlers of routes/products.ts and routes/variants.ts *)
(* over the relational store (products, variants, categories).             *)
(*                                                                         *)
(* Every handler is synchronous (better-sqlite3 statements, no await), so  *)
(* one request is one atomic step of the state machine.                    *)
(***************************************************************************)
EXTENDS Integers, Sequences, FiniteSets, TLC

(***************************************************************************)
(* Bounds of the model.                                                    *)
(***************************************************************************)
\* product rows the store may hold
MaxProducts == 2
\* variant ids the store may hand out (AUTOINCREMENT never reuses an id)
MaxVariantId == 3
\* variants in one create request
MaxBatch == 2
\* largest value of the wall clock, in seconds
MaxTime == 1
\* requests a page of the client may have sent and not yet seen answered
MaxInFlight == 2

(***************************************************************************)
(* JavaScript / SQL values.  A value carries its type tag t, its string    *)
(* payload s (a sequence of one-character strings) and its number n.       *)
(***************************************************************************)
Undefined == [t |-> "undefined", s |-> <<>>, n |-> 0]
Null == [t |-> "null", s |-> <<>>, n |-> 0]
NaN == [t |-> "NaN", s |-> <<>>, n |-> 0]
Str(s) == [t |-> "string", s |-> s, n |-> 0]
Num(n) == [t |-> "number", s |-> <<>>, n |-> n]

\* v == null  (loose equality: undefined or null)
IsNullish(v) == v.t \in {"undefined", "null"}

\* !v is false
Truthy(v) ==
    CASE v.t = "string" -> Len(v.s) > 0
      [] v.t = "number" -> v.n # 0
      [] OTHER -> FALSE

\* a ?? b
Coalesce(a, b) == IF IsNullish(a) THEN b ELSE a

IsSpace(c) == c = " "

\* String.prototype.trim
RECURSIVE TrimStart(_)
TrimStart(s) ==
    IF s # <<>> /\ IsSpace(Head(s)) THEN TrimStart(Tail(s)) ELSE s

RECURSIVE TrimEnd(_)
TrimEnd(s) ==
    IF s # <<>> /\ IsSpace(s[Len(s)]) THEN TrimEnd(SubSeq(s, 1, Len(s) - 1)) ELSE s

Trim(s) == TrimEnd(TrimStart(s))

Digits == <<"0", "1", "2", "3", "4", "5", "6", "7", "8", "9">>

IsDigit(c) == \E i \in 1..10 : Digits[i] = c

DigitValue(c) == (CHOOSE i \in 1..10 : Digits[i] = c) - 1

RECURSIVE ParseDigits(_, _)
ParseDigits(s, acc) ==
    IF s = <<>> THEN acc ELSE ParseDigits(Tail(s), 10 * acc + DigitValue(Head(s)))

\* Number(v): the empty (or blank) string is 0, a digit string its value,
\* any other string NaN
ToNumber(v) ==
    CASE v.t = "number" -> v
      [] v.t = "null" -> Num(0)
      [] v.t = "string" ->
            LET r == Trim(v.s)
            IN  IF \A i \in 1..Len(r) : IsDigit(r[i]) THEN Num(ParseDigits(r, 0)) ELSE NaN
      [] OTHER -> NaN

(***************************************************************************)
(* String constants of the handlers.                                       *)
(***************************************************************************)
Active == Str(<<"a", "c", "t", "i", "v", "e">>)
Draft == Str(<<"d", "r", "a", "f", "t">>)
Archived == Str(<<"a", "r", "c", "h", "i", "v", "e", "d">>)

validStatuses == {Active, Draft, Archived}

(***************************************************************************)
(* The relational store.                                                   *)
(*   products   : the products table, a sequence whose i-th row has id i   *)
(*                (rows are never physically removed)                      *)
(*   variants   : the variants table, a set of rows                        *)
(*   variantSeq : the largest variant id handed out so far                 *)
(*   now        : the store's clock, datetime('now')                       *)
(*   tieOrder   : the order in which the store returns rows whose ORDER BY *)
(*                keys are equal; SQL leaves it to the engine, and one     *)
(*                engine keeps one order                                   *)
(*   pending    : per server process, the create request that has passed   *)
(*                its checks and has not yet run its transaction           *)
(*   last       : the last request and the response sent for it            *)
(***************************************************************************)
VARIABLES products, variants, variantSeq, now, tieOrder, pending, last,
          createPage, variantRow

vars == <<products, variants, variantSeq, now, tieOrder, pending, last,
          createPage, variantRow>>

\* the variables of the server
server == <<products, variants, variantSeq, now, tieOrder, pending, last>>

\* the server processes that share the database file
Workers == {"w1", "w2"}

NoRequest == [busy |-> FALSE, op |-> "none", stage |-> "none", id |-> 0, body |-> <<>>,
              read |-> <<>>]

\* a handler between two of its statements: the next one is stage, read is
\* the row it has in hand
InFlight(op, stage, id, body, read) ==
    [busy |-> TRUE, op |-> op, stage |-> stage, id |-> id, body |-> body, read |-> read]

\* the rows of the categories table; no handler of the core writes it
Categories ==
    { [id |-> 1, name |-> <<"D", "r", "y">>],
      [id |-> 2, name |-> <<"C", "a", "n">>] }

\* SELECT id FROM categories WHERE id = ?
CategoryById(param) == {c \in Categories : param.t = "number" /\ c.id = param.n}

\* LEFT JOIN categories c ON p.category_id = c.id ... c.name AS category_name
CategoryName(category_id) ==
    IF CategoryById(category_id) = {}
    THEN Null
    ELSE Str((CHOOSE c \in CategoryById(category_id) : TRUE).name)

\* a lookup that sees live products only
ProductByIdLive(ps, id) ==
    {ps[i] : i \in {j \in 1..Len(ps) : j = id /\ ps[j].deleted_at = Null}}

\* SELECT * FROM products WHERE id = ?
ProductById(ps, id) == {ps[i] : i \in {j \in 1..Len(ps) : j = id}}

\* SELECT * FROM variants WHERE id = ?
VariantById(vs, id) == {v \in vs : v.id = id}

\* a lookup that passes over the variants of deleted products
VariantBySkuOfLiveProducts(vs, sku) ==
    {v \in vs : v.sku = sku /\ products[v.product_id].deleted_at = Null}

\* SELECT id FROM variants WHERE sku = ?
VariantBySku(vs, sku) == {v \in vs : v.sku = sku}

\* SELECT ... FROM variants WHERE product_id = ?
VariantsOf(vs, productId) == {v \in vs : v.product_id = productId}

\* the sequences that list the rows of a finite set, each once
Listings(rows) ==
    {f \in [1..Cardinality(rows) -> rows] : \A i, j \in DOMAIN f : i # j => f[i] # f[j]}

\* rows with equal ORDER BY keys: in the order of their rowids, or against it
TieBefore(a, b) == IF tieOrder = "rowid" THEN a.id < b.id ELSE a.id > b.id

\* ORDER BY created_at ASC
OrderByCreatedAsc(rows) ==
    {f \in Listings(rows) :
        \A i, j \in DOMAIN f :
            i < j => \/ f[i].created_at < f[j].created_at
                     \/ f[i].created_at = f[j].created_at /\ TieBefore(f[i], f[j])}

\* ORDER BY created_at DESC
OrderByCreatedDesc(rows) ==
    {f \in Listings(rows) :
        \A i, j \in DOMAIN f :
            i < j => \/ f[i].created_at > f[j].created_at
                     \/ f[i].created_at = f[j].created_at /\ TieBefore(f[i], f[j])}

\* SELECT p.*, c.name AS category_name FROM products p LEFT JOIN categories c ...
WithCategoryName(p) == [row |-> p, category_name |-> CategoryName(p.category_id)]

(***************************************************************************)
(* Responses.                                                              *)
(***************************************************************************)
NoError == "none"

\* res.status(code).json({ error }) / res.status(code).send(message)
Failure(code, error, index) ==
    [status |-> code, error |-> error, index |-> index, body |-> <<>>]

\* res.status(code).json(body)
Success(code, body) ==
    [status |-> code, error |-> NoError, index |-> 0, body |-> body]

Exchange(op, id, req, fault, res) ==
    [op |-> op, id |-> id, req |-> req, fault |-> fault, res |-> res]

TypeOK ==
    /\ Len(products) <= MaxProducts
    /\ variantSeq \in 0..MaxVariantId
    /\ now \in 0..MaxTime
    /\ tieOrder \in {"rowid", "reverse"}
    /\ DOMAIN pending = Workers
    /\ \A v \in variants : v.id \in 1..variantSeq

\* emptyVariant(key): a variant row of the create form
emptyVariant == [sku |-> <<>>, name |-> <<>>, price |-> "", inventory_count |-> ""]

\* the useState initial values of CreateProductPage; requests holds the
\* bodies passed to createProduct whose promise has not settled
NewCreatePage ==
    [mounted |-> TRUE,
     productName |-> <<>>,
     variants |-> <<emptyVariant>>,
     submitting |-> FALSE,
     error |-> NoError,
     fieldErrors |-> {},
     requests |-> <<>>]

\* the useState initial values of a VariantRow, with the variant it is
\* given; requests holds the bodies passed to updateVariant whose promise
\* has not settled
NewVariantRow ==
    [variant |-> [price_cents |-> 500, inventory_count |-> 3],
     editing |-> FALSE,
     price |-> "",
     inventory |-> "",
     saving |-> FALSE,
     error |-> NoError,
     requests |-> <<>>]

Init ==
    /\ createPage = NewCreatePage
    /\ variantRow = NewVariantRow
    /\ products = <<>>
    /\ variants = {}
    /\ variantSeq = 0
    /\ now = 0
    /\ tieOrder \in {"rowid", "reverse"}
    /\ pending = [w \in Workers |-> NoRequest]
    /\ last = Exchange("none", 0, <<>>, 0, Success(200, <<>>))

\* datetime('now') gives a later second.  The specifications below run within
\* one second of the clock; those about timestamps add this step.
Tick ==
    /\ now < MaxTime
    /\ now' = now + 1
    /\ UNCHANGED <<products, variants, variantSeq, tieOrder, createPage, variantRow, pending, last>>

(***************************************************************************)
(* POST /api/products                                                      *)
(*   body: [name, description, category_id, status, variants] with         *)
(*   variants = [isArray, items], items a sequence of                      *)
(*   [sku, name, price_cents, inventory_count]                             *)
(***************************************************************************)

\* !x || typeof x !== "string" || x.trim().length === 0
MissingString(x) == ~Truthy(x) \/ x.t # "string" \/ Len(Trim(x.s)) = 0

\* a check that takes zero for a missing amount and refuses it
InvalidAmountRejectsZero(x) == ~IsNullish(x) /\ (x.t # "number" \/ x.n <= 0)

\* x != null && (typeof x !== "number" || x < 0)
InvalidAmount(x) == ~IsNullish(x) /\ (x.t # "number" \/ x.n < 0)

\* a loop that leaves SKU uniqueness against the store to the store
RECURSIVE ValidateVariantsInRequestOnly(_, _, _, _)
ValidateVariantsInRequestOnly(items, i, skusInRequest, vs) ==
    IF i > Len(items) THEN Success(200, <<>>)
    ELSE LET v == items[i]
             normalizedSku == Trim(v.sku.s)
         IN  IF MissingString(v.sku) THEN Failure(400, "variant missing sku", i - 1)
             ELSE IF MissingString(v.name) THEN Failure(400, "variant missing name", i - 1)
             ELSE IF InvalidAmount(v.price_cents) THEN Failure(400, "invalid price", i - 1)
             ELSE IF InvalidAmount(v.inventory_count)
                  THEN Failure(400, "invalid inventory count", i - 1)
             ELSE IF normalizedSku \in skusInRequest
                  THEN Failure(400, "duplicate sku within request", i - 1)
             ELSE ValidateVariantsInRequestOnly(items, i + 1,
                                                skusInRequest \cup {normalizedSku}, vs)

\* the for loop over the variants of the request, from index i on (1-based
\* here, reported 0-based), with the SKUs seen before i
RECURSIVE ValidateVariants(_, _, _, _)
ValidateVariants(items, i, skusInRequest, vs) ==
    IF i > Len(items) THEN Success(200, <<>>)
    ELSE LET v == items[i]
             normalizedSku == Trim(v.sku.s)
         IN  IF MissingString(v.sku) THEN Failure(400, "variant missing sku", i - 1)
             ELSE IF MissingString(v.name) THEN Failure(400, "variant missing name", i - 1)
             ELSE IF InvalidAmount(v.price_cents) THEN Failure(400, "invalid price", i - 1)
             ELSE IF InvalidAmount(v.inventory_count)
                  THEN Failure(400, "invalid inventory count", i - 1)
             ELSE IF normalizedSku \in skusInRequest
                  THEN Failure(400, "duplicate sku within request", i - 1)
             ELSE IF VariantBySku(vs, normalizedSku) # {}
                  THEN Failure(409, "sku already exists", i - 1)
             ELSE ValidateVariants(items, i + 1, skusInRequest \cup {normalizedSku}, vs)

\* status ?? "active"
ProductStatus(body) == Coalesce(body.status, Active)

\* checks that take an empty variants array
ValidateCreateAcceptsNoVariants(body, vs) ==
    IF MissingString(body.name) THEN Failure(400, "product name required", 0)
    ELSE IF ~body.variants.isArray THEN Failure(400, "at least one variant required", 0)
    ELSE IF ProductStatus(body) \notin validStatuses THEN Failure(400, "invalid status", 0)
    ELSE IF ~IsNullish(body.category_id) /\ CategoryById(ToNumber(body.category_id)) = {}
         THEN Failure(400, "category not found", 0)
    ELSE ValidateVariants(body.variants.items, 1, {}, vs)

\* checks that take any category_id
ValidateCreateWithoutCategoryCheck(body, vs) ==
    IF MissingString(body.name) THEN Failure(400, "product name required", 0)
    ELSE IF ~body.variants.isArray \/ Len(body.variants.items) = 0
         THEN Failure(400, "at least one variant required", 0)
    ELSE IF ProductStatus(body) \notin validStatuses THEN Failure(400, "invalid status", 0)
    ELSE ValidateVariants(body.variants.items, 1, {}, vs)

\* checks that look at the variants before the status and the category
ValidateCreateVariantsFirst(body, vs) ==
    IF MissingString(body.name) THEN Failure(400, "product name required", 0)
    ELSE IF ~body.variants.isArray \/ Len(body.variants.items) = 0
         THEN Failure(400, "at least one variant required", 0)
    ELSE IF ValidateVariants(body.variants.items, 1, {}, vs).status # 200
         THEN ValidateVariants(body.variants.items, 1, {}, vs)
    ELSE IF ProductStatus(body) \notin validStatuses THEN Failure(400, "invalid status", 0)
    ELSE IF ~IsNullish(body.category_id) /\ CategoryById(ToNumber(body.category_id)) = {}
         THEN Failure(400, "category not found", 0)
    ELSE Success(200, <<>>)

\* the checks of the handler before the transactional insert
ValidateCreate(body, vs) ==
    IF MissingString(body.name) THEN Failure(400, "product name required", 0)
    ELSE IF ~body.variants.isArray \/ Len(body.variants.items) = 0
         THEN Failure(400, "at least one variant required", 0)
    ELSE IF ProductStatus(body) \notin validStatuses THEN Failure(400, "invalid status", 0)
    ELSE IF ~IsNullish(body.category_id) /\ CategoryById(ToNumber(body.category_id)) = {}
         THEN Failure(400, "category not found", 0)
    ELSE ValidateVariants(body.variants.items, 1, {}, vs)

\* insertProduct.run(name.trim(), description ?? null, category_id ?? null, productStatus)
InsertProduct(db, body, t) ==
    [db EXCEPT !.products =
        Append(@, [id |-> Len(@) + 1,
                   name |-> Str(Trim(body.name.s)),
                   description |-> Coalesce(body.description, Null),
                   category_id |-> Coalesce(body.category_id, Null),
                   status |-> ProductStatus(body),
                   deleted_at |-> Null,
                   created_at |-> t,
                   updated_at |-> t])]

\* insertVariant.run(productId, v.sku.trim(), v.name.trim(), v.price_cents ?? 0,
\*                   v.inventory_count ?? 0)
InsertVariant(db, productId, v, t) ==
    [db EXCEPT !.variantSeq = @ + 1,
               !.variants = @ \cup {[id |-> db.variantSeq + 1,
                                     product_id |-> productId,
                                     sku |-> Trim(v.sku.s),
                                     name |-> Trim(v.name.s),
                                     price_cents |-> Coalesce(v.price_cents, Num(0)).n,
                                     inventory_count |-> Coalesce(v.inventory_count, Num(0)).n,
                                     created_at |-> t,
                                     updated_at |-> t]}]

\* for (const v of variants) insertVariant.run(...): the inserts from index i
\* on; the statement numbered fault throws (the product insert is statement 1,
\* the i-th variant insert statement i + 1; fault 0: none throws)
RECURSIVE InsertVariants(_, _, _, _, _, _)
InsertVariants(db, productId, items, i, fault, t) ==
    IF i > Len(items) THEN [db |-> db, threw |-> FALSE]
    ELSE IF fault = i + 1 THEN [db |-> db, threw |-> TRUE]
    ELSE InsertVariants(InsertVariant(db, productId, items[i], t), productId, items, i + 1,
                        fault, t)

\* the body of the function handed to db.transaction
TransactionBody(db, body, fault, t) ==
    IF fault = 1 THEN [db |-> db, threw |-> TRUE]
    ELSE LET inserted == InsertProduct(db, body, t)
         IN  InsertVariants(inserted, Len(inserted.products), body.variants.items, 1, fault, t)

\* a unit that keeps the rows written before the statement that threw
TransactionWithoutRollback(db, body, fault, t) ==
    LET run == TransactionBody(db, body, fault, t)
    IN  [db |-> run.db, threw |-> run.threw, productId |-> Len(db.products) + 1]

\* createProductTransaction(): db.transaction commits when the function
\* returns and rolls back to the state before it when the function throws
createProductTransaction(db, body, fault, t) ==
    LET run == TransactionBody(db, body, fault, t)
    IN  [db |-> IF run.threw THEN db ELSE run.db,
         threw |-> run.threw,
         productId |-> Len(db.products) + 1]

\* the store as one value
Store == [products |-> products, variants |-> variants, variantSeq |-> variantSeq]

\* SELECT p.*, c.name ... WHERE p.id = ? and SELECT * FROM variants WHERE
\* product_id = ? ORDER BY created_at ASC, sent as { ...product, variants }
ProductWithVariants(db, id) ==
    {[product |-> WithCategoryName(db.products[id]), variants |-> vl] :
        vl \in OrderByCreatedAsc(VariantsOf(db.variants, id))}

\* faults: the statements of the transaction at which the store may fail
PostProduct(body, faults) ==
    LET checked == ValidateCreate(body, variants)
    IN  IF checked.status # 200
        THEN /\ last' = Exchange("POST /products", 0, body, 0, checked)
             /\ UNCHANGED <<products, variants, variantSeq, now, tieOrder, createPage, variantRow, pending>>
        ELSE /\ Len(products) < MaxProducts
             /\ variantSeq + Len(body.variants.items) <= MaxVariantId
             /\ \E fault \in faults \cap (0..(Len(body.variants.items) + 1)) :
                LET tx == createProductTransaction(Store, body, fault, now)
                IN  /\ products' = tx.db.products
                    /\ variants' = tx.db.variants
                    /\ variantSeq' = tx.db.variantSeq
                    /\ IF tx.threw
                       THEN last' = Exchange("POST /products", 0, body, fault,
                                             Failure(500, "storage error", 0))
                       ELSE \E created \in ProductWithVariants(tx.db, tx.productId) :
                               last' = Exchange("POST /products", 0, body, 0,
                                                Success(201, created))
                    /\ UNCHANGED <<now, tieOrder, createPage, variantRow, pending>>

(***************************************************************************)
(* POST /api/products on several server processes that share the database. *)
(* A handler runs without interruption inside its process; the lookups of   *)
(* its checks and its transaction are separate accesses to the store, and   *)
(* another process may write between them.                                  *)
(***************************************************************************)

\* the UNIQUE index on variants.sku: the number of the first statement of
\* the transaction that inserts a SKU already in the table (the insert of the
\* i-th variant is statement i + 1), 0 when there is none
RECURSIVE UniqueViolation(_, _, _)
UniqueViolation(skus, items, i) ==
    IF i > Len(items) THEN 0
    ELSE IF Trim(items[i].sku.s) \in skus THEN i + 1
    ELSE UniqueViolation(skus \cup {Trim(items[i].sku.s)}, items, i + 1)

\* the handler up to the end of its checks
BeginCreate(w, body) ==
    /\ ~pending[w].busy
    /\ LET checked == ValidateCreate(body, variants)
       IN  IF checked.status # 200
           THEN /\ last' = Exchange("POST /products", 0, body, 0, checked)
                /\ UNCHANGED pending
           ELSE /\ pending' = [pending EXCEPT
                                  ![w] = InFlight("POST /products", "write", 0, body, <<>>)]
                /\ UNCHANGED last
    /\ UNCHANGED <<products, variants, variantSeq, now, tieOrder, createPage, variantRow>>

\* the handler from createProductTransaction() to its response; an insert
\* the store refuses throws, and the catch block answers 500
FinishCreate(w) ==
    /\ pending[w].busy
    /\ pending[w].op = "POST /products"
    /\ Len(products) < MaxProducts
    /\ variantSeq + Len(pending[w].body.variants.items) <= MaxVariantId
    /\ LET body == pending[w].body
           fault == UniqueViolation({v.sku : v \in variants}, body.variants.items, 1)
           tx == createProductTransaction(Store, body, fault, now)
       IN  /\ products' = tx.db.products
           /\ variants' = tx.db.variants
           /\ variantSeq' = tx.db.variantSeq
           /\ IF tx.threw
              THEN last' = Exchange("POST /products", 0, body, fault,
                                    Failure(500, "storage error", 0))
              ELSE \E created \in ProductWithVariants(tx.db, tx.productId) :
                      last' = Exchange("POST /products", 0, body, 0, Success(201, created))
    /\ pending' = [pending EXCEPT ![w] = NoRequest]
    /\ UNCHANGED <<now, tieOrder, createPage, variantRow>>

(***************************************************************************)
(* GET /api/products   query: [search, category_id], each a string of the  *)
(* query string or undefined                                               *)
(***************************************************************************)

\* SQLite folds the case of ASCII letters in LIKE
Lower(c) ==
    CASE c = "A" -> "a"
      [] c = "B" -> "b"
      [] c = "C" -> "c"
      [] c = "D" -> "d"
      [] c = "E" -> "e"
      [] c = "F" -> "f"
      [] c = "G" -> "g"
      [] c = "H" -> "h"
      [] c = "I" -> "i"
      [] c = "J" -> "j"
      [] c = "K" -> "k"
      [] c = "L" -> "l"
      [] c = "M" -> "m"
      [] c = "N" -> "n"
      [] c = "O" -> "o"
      [] c = "P" -> "p"
      [] c = "Q" -> "q"
      [] c = "R" -> "r"
      [] c = "S" -> "s"
      [] c = "T" -> "t"
      [] c = "U" -> "u"
      [] c = "V" -> "v"
      [] c = "W" -> "w"
      [] c = "X" -> "x"
      [] c = "Y" -> "y"
      [] c = "Z" -> "z"
      [] OTHER -> c

\* text LIKE pattern: % matches any run of characters, _ any one character
RECURSIVE Like(_, _)
Like(text, pattern) ==
    IF pattern = <<>> THEN text = <<>>
    ELSE IF Head(pattern) = "%"
         THEN Like(text, Tail(pattern)) \/ (text # <<>> /\ Like(Tail(text), pattern))
    ELSE IF text = <<>> THEN FALSE
    ELSE IF Head(pattern) = "_" \/ Lower(Head(pattern)) = Lower(Head(text))
         THEN Like(Tail(text), Tail(pattern))
    ELSE FALSE

\* column LIKE ? with the parameter `%${search}%`; NULL LIKE ? is not true
ColumnLike(column, search) ==
    column.t = "string" /\ Like(column.s, <<"%">> \o search.s \o <<"%">>)

\* a WHERE clause built from the caller's filters alone
ListConditionFiltersOnly(p, query) ==
    /\ Truthy(query.search) =>
          (ColumnLike(p.name, query.search) \/ ColumnLike(p.description, query.search))
    /\ Truthy(query.category_id) => p.category_id = ToNumber(query.category_id)

\* a WHERE clause that joins the caller's filters with OR
ListConditionEitherFilter(p, query) ==
    /\ p.deleted_at = Null
    /\ \/ ~Truthy(query.search) /\ ~Truthy(query.category_id)
       \/ /\ Truthy(query.search)
          /\ (ColumnLike(p.name, query.search) \/ ColumnLike(p.description, query.search))
       \/ /\ Truthy(query.category_id)
          /\ p.category_id = ToNumber(query.category_id)

\* conditions.join(" AND "): the WHERE clause of the listing
ListCondition(p, query) ==
    /\ p.deleted_at = Null
    /\ Truthy(query.search) =>
          (ColumnLike(p.name, query.search) \/ ColumnLike(p.description, query.search))
    /\ Truthy(query.category_id) => p.category_id = ToNumber(query.category_id)

RECURSIVE SumInventory(_)
SumInventory(rows) ==
    IF rows = {} THEN 0
    ELSE LET r == CHOOSE x \in rows : TRUE
         IN  r.inventory_count + SumInventory(rows \ {r})

\* MIN(v.price_cents): NULL over no rows
MinPrice(rows) ==
    IF rows = {} THEN Null
    ELSE Num(CHOOSE m \in {r.price_cents : r \in rows} : \A r \in rows : m <= r.price_cents)

\* an aggregate that reports the lowest price as the highest
MaxPriceAsMin(rows) ==
    IF rows = {} THEN Null
    ELSE Num(CHOOSE m \in {r.price_cents : r \in rows} : \A r \in rows : m <= r.price_cents)

\* MAX(v.price_cents)
MaxPrice(rows) ==
    IF rows = {} THEN Null
    ELSE Num(CHOOSE m \in {r.price_cents : r \in rows} : \A r \in rows : m >= r.price_cents)

\* one row of the listing: the product, its category name and the aggregates
\* over its joined variants (GROUP BY p.id)
Summary(p, vs) ==
    [id |-> p.id,
     created_at |-> p.created_at,
     row |-> p,
     category_name |-> CategoryName(p.category_id),
     variant_count |-> Cardinality(VariantsOf(vs, p.id)),
     min_price_cents |-> MinPrice(VariantsOf(vs, p.id)),
     max_price_cents |-> MaxPrice(VariantsOf(vs, p.id)),
     total_inventory |-> SumInventory(VariantsOf(vs, p.id))]

\* the rows the listing selects
Listed(ps, vs, query) ==
    {Summary(ps[i], vs) : i \in {j \in 1..Len(ps) : ListCondition(ps[j], query)}}

GetProducts(query) ==
    /\ \E rows \in OrderByCreatedDesc(Listed(products, variants, query)) :
          last' = Exchange("GET /products", 0, query, 0, Success(200, rows))
    /\ UNCHANGED <<products, variants, variantSeq, now, tieOrder, createPage, variantRow, pending>>

(***************************************************************************)
(* GET /api/products/:id                                                   *)
(***************************************************************************)

\* a detail query that leaves out the join with categories
ProductDetailWithoutJoin(db, id) ==
    {[product |-> [row |-> db.products[id], category_name |-> Null], variants |-> vl] :
        vl \in OrderByCreatedAsc(VariantsOf(db.variants, id))}

\* SELECT p.*, c.name AS category_name ... LEFT JOIN categories ... WHERE
\* p.id = ? and SELECT * FROM variants WHERE product_id = ? ORDER BY
\* created_at ASC, sent as { ...product, variants }
ProductDetail(db, id) ==
    {[product |-> WithCategoryName(db.products[id]), variants |-> vl] :
        vl \in OrderByCreatedAsc(VariantsOf(db.variants, id))}

GetProduct(id) ==
    /\ IF ProductById(products, id) = {}
       THEN last' = Exchange("GET /products/:id", id, <<>>, 0,
                             Failure(404, "product not found", 0))
       ELSE \E found \in ProductDetail(Store, id) :
               last' = Exchange("GET /products/:id", id, <<>>, 0, Success(200, found))
    /\ UNCHANGED <<products, variants, variantSeq, now, tieOrder, createPage, variantRow, pending>>

(***************************************************************************)
(* PUT /api/products/:id   body: [name, description, category_id, status]  *)
(***************************************************************************)

\* a merge in which an explicit null clears the column
CoalesceColumnNullClears(x, column) == IF x.t = "undefined" THEN column ELSE x

\* SET col = COALESCE(?, col) with the parameter x ?? null
CoalesceColumn(x, column) == IF IsNullish(x) THEN column ELSE x

\* an UPDATE that writes every column from the request, absent ones as NULL
UpdateProductRowReplacing(p, body, t) ==
    [p EXCEPT !.name = Coalesce(body.name, Null),
              !.description = Coalesce(body.description, Null),
              !.category_id = Coalesce(body.category_id, Null),
              !.status = Coalesce(body.status, Null),
              !.updated_at = t]

\* UPDATE products SET ... , updated_at = datetime('now') WHERE id = ?
UpdateProductRow(p, body, t) ==
    [p EXCEPT !.name = CoalesceColumn(body.name, @),
              !.description = CoalesceColumn(body.description, @),
              !.category_id = CoalesceColumn(body.category_id, @),
              !.status = CoalesceColumn(body.status, @),
              !.updated_at = t]

\* the UPDATE names a category that is not in the categories table
DanglingCategory(body) ==
    ~IsNullish(body.category_id) /\ CategoryById(ToNumber(body.category_id)) = {}

\* the UPDATE names a status that is not one of the enumerated values
UnlistedStatus(body) == ~IsNullish(body.status) /\ body.status \notin validStatuses

\* a handler that looks the product up among the live rows only
PutProductLiveOnly(id, body) ==
    IF ProductByIdLive(products, id) = {}
    THEN /\ last' = Exchange("PUT /products/:id", id, body, 0,
                             Failure(404, "product not found", 0))
         /\ UNCHANGED <<products, variants, variantSeq, now, tieOrder, createPage, variantRow, pending>>
    ELSE /\ products' = [products EXCEPT ![id] = UpdateProductRow(@, body, now)]
         /\ last' = Exchange("PUT /products/:id", id, body, 0,
                             Success(200, WithCategoryName(products'[id])))
         /\ UNCHANGED <<variants, variantSeq, now, tieOrder, createPage, variantRow, pending>>

\* The handler checks nothing but the product id.  category_id is declared a
\* foreign key and status an enumeration: a store that enforces them makes
\* the UPDATE throw, which the catch block answers with 500; a store that
\* does not enforce them takes the row as it is.
PutProduct(id, body) ==
    IF ProductById(products, id) = {}
    THEN /\ last' = Exchange("PUT /products/:id", id, body, 0,
                             Failure(404, "product not found", 0))
         /\ UNCHANGED <<products, variants, variantSeq, now, tieOrder, createPage, variantRow, pending>>
    ELSE \E enforced \in BOOLEAN :
            IF enforced /\ (DanglingCategory(body) \/ UnlistedStatus(body))
            THEN /\ last' = Exchange("PUT /products/:id", id, body, 1,
                                     Failure(500, "storage error", 0))
                 /\ UNCHANGED <<products, variants, variantSeq, now, tieOrder, createPage, variantRow, pending>>
            ELSE /\ products' = [products EXCEPT ![id] = UpdateProductRow(@, body, now)]
                 /\ last' = Exchange("PUT /products/:id", id, body, 0,
                                     Success(200, WithCategoryName(products'[id])))
                 /\ UNCHANGED <<variants, variantSeq, now, tieOrder, createPage, variantRow, pending>>

(***************************************************************************)
(* DELETE /api/products/:id                                                *)
(***************************************************************************)

\* UPDATE products SET deleted_at = datetime('now'), updated_at = datetime('now')
SoftDeleteRow(p, t) == [p EXCEPT !.deleted_at = Num(t), !.updated_at = t]

\* a handler that removes the variants of the product it deletes
DeleteProductCascade(id) ==
    IF ProductById(products, id) = {}
    THEN /\ last' = Exchange("DELETE /products/:id", id, <<>>, 0,
                             Failure(404, "product not found", 0))
         /\ UNCHANGED <<products, variants, variantSeq, now, tieOrder, createPage, variantRow, pending>>
    ELSE /\ products' = [products EXCEPT ![id] = SoftDeleteRow(@, now)]
         /\ variants' = variants \ VariantsOf(variants, id)
         /\ last' = Exchange("DELETE /products/:id", id, <<>>, 0,
                             Success(200, [success |-> TRUE]))
         /\ UNCHANGED <<variantSeq, now, tieOrder, createPage, variantRow, pending>>

\* a handler that finds live products only
DeleteProductOnce(id) ==
    IF ProductByIdLive(products, id) = {}
    THEN /\ last' = Exchange("DELETE /products/:id", id, <<>>, 0,
                             Failure(404, "product not found", 0))
         /\ UNCHANGED <<products, variants, variantSeq, now, tieOrder, createPage, variantRow, pending>>
    ELSE /\ products' = [products EXCEPT ![id] = SoftDeleteRow(@, now)]
         /\ last' = Exchange("DELETE /products/:id", id, <<>>, 0,
                             Success(200, [success |-> TRUE]))
         /\ UNCHANGED <<variants, variantSeq, now, tieOrder, createPage, variantRow, pending>>

DeleteProduct(id) ==
    IF ProductById(products, id) = {}
    THEN /\ last' = Exchange("DELETE /products/:id", id, <<>>, 0,
                             Failure(404, "product not found", 0))
         /\ UNCHANGED <<products, variants, variantSeq, now, tieOrder, createPage, variantRow, pending>>
    ELSE /\ products' = [products EXCEPT ![id] = SoftDeleteRow(@, now)]
         /\ last' = Exchange("DELETE /products/:id", id, <<>>, 0,
                             Success(200, [success |-> TRUE]))
         /\ UNCHANGED <<variants, variantSeq, now, tieOrder, createPage, variantRow, pending>>

(***************************************************************************)
(* GET /api/variants/:id                                                   *)
(***************************************************************************)
GetVariant(id) ==
    /\ IF VariantById(variants, id) = {}
       THEN last' = Exchange("GET /variants/:id", id, <<>>, 0,
                             Failure(404, "variant not found", 0))
       ELSE last' = Exchange("GET /variants/:id", id, <<>>, 0,
                             Success(200, CHOOSE v \in VariantById(variants, id) : TRUE))
    /\ UNCHANGED <<products, variants, variantSeq, now, tieOrder, createPage, variantRow, pending>>

(***************************************************************************)
(* PUT /api/variants/:id   body: [name, sku, price_cents, inventory_count] *)
(***************************************************************************)

\* x !== undefined && (typeof x !== "string" || x.trim().length === 0)
InvalidSuppliedString(x) == x.t # "undefined" /\ (x.t # "string" \/ Len(Trim(x.s)) = 0)

\* a check of the type only, which takes negative amounts
InvalidSuppliedAmountTypeOnly(x) == x.t # "undefined" /\ x.t # "number"

\* x !== undefined and (typeof x !== "number" || x < 0)
InvalidSuppliedAmount(x) == x.t # "undefined" /\ (x.t # "number" \/ x.n < 0)

\* a check that never finds a conflict
SkuConflictNever(vs, id, existing, sku) == FALSE

\* a check that looks for the SKU in every row, the variant's own included
SkuConflictAgainstAnyRow(vs, id, existing, sku) ==
    /\ sku.t # "undefined"
    /\ VariantBySku(vs, Trim(sku.s)) # {}

\* a check that looks for the SKU among the variants of the same product only
SkuConflictWithinProduct(vs, id, existing, sku) ==
    /\ sku.t # "undefined"
    /\ Trim(sku.s) # existing.sku
    /\ {v \in VariantBySku(vs, Trim(sku.s)) :
           v.id # id /\ v.product_id = existing.product_id} # {}

\* step 3: sku !== undefined && sku.trim() !== existing.sku, then
\* SELECT id FROM variants WHERE sku = ? AND id != ?
SkuConflict(vs, id, existing, sku) ==
    /\ sku.t # "undefined"
    /\ Trim(sku.s) # existing.sku
    /\ {v \in VariantBySku(vs, Trim(sku.s)) : v.id # id} # {}

\* step 4: the columns the UPDATE names, in the order they are pushed
UpdateColumns(body) ==
    (IF body.name.t # "undefined" THEN <<"name">> ELSE <<>>)
    \o (IF body.sku.t # "undefined" THEN <<"sku">> ELSE <<>>)
    \o (IF body.price_cents.t # "undefined" THEN <<"price_cents">> ELSE <<>>)
    \o (IF body.inventory_count.t # "undefined" THEN <<"inventory_count">> ELSE <<>>)

\* the parameter pushed for a column
ColumnParam(body, column) ==
    CASE column = "name" -> Trim(body.name.s)
      [] column = "sku" -> Trim(body.sku.s)
      [] column = "price_cents" -> body.price_cents.n
      [] column = "inventory_count" -> body.inventory_count.n

\* UPDATE variants SET <updates>, updated_at = datetime('now') WHERE id = ?
RECURSIVE SetColumns(_, _, _)
SetColumns(v, body, columns) ==
    IF columns = <<>> THEN v
    ELSE SetColumns([v EXCEPT ![Head(columns)] = ColumnParam(body, Head(columns))],
                    body, Tail(columns))

\* an update that rewrites every column from the request, absent ones as 0
UpdateVariantRowAllColumns(v, body, t) ==
    [v EXCEPT !.name = IF body.name.t # "undefined" THEN Trim(body.name.s) ELSE @,
              !.sku = IF body.sku.t # "undefined" THEN Trim(body.sku.s) ELSE @,
              !.price_cents = body.price_cents.n,
              !.inventory_count = body.inventory_count.n,
              !.updated_at = t]

\* an update that refreshes updated_at only when a column changes
UpdateVariantRowWhenChanged(v, body, t) ==
    IF SetColumns(v, body, UpdateColumns(body)) = v THEN v
    ELSE [SetColumns(v, body, UpdateColumns(body)) EXCEPT !.updated_at = t]

UpdateVariantRow(v, body, t) ==
    [SetColumns(v, body, UpdateColumns(body)) EXCEPT !.updated_at = t]

\* checks that let a request without fields through to the UPDATE
ValidateVariantUpdateAcceptsNoFields(vs, id, body) ==
    IF VariantById(vs, id) = {} THEN Failure(404, "variant not found", 0)
    ELSE IF InvalidSuppliedString(body.name) THEN Failure(400, "invalid variant name", 0)
    ELSE IF InvalidSuppliedString(body.sku) THEN Failure(400, "invalid sku", 0)
    ELSE IF InvalidSuppliedAmount(body.price_cents) THEN Failure(400, "invalid price", 0)
    ELSE IF InvalidSuppliedAmount(body.inventory_count)
         THEN Failure(400, "invalid inventory count", 0)
    ELSE IF SkuConflict(vs, id, CHOOSE v \in VariantById(vs, id) : TRUE, body.sku)
         THEN Failure(409, "sku already exists", 0)
    ELSE Success(200, <<>>)

\* steps 1 to 4 of the handler up to the UPDATE: the failure sent, or 200
ValidateVariantUpdate(vs, id, body) ==
    IF VariantById(vs, id) = {} THEN Failure(404, "variant not found", 0)
    ELSE IF InvalidSuppliedString(body.name) THEN Failure(400, "invalid variant name", 0)
    ELSE IF InvalidSuppliedString(body.sku) THEN Failure(400, "invalid sku", 0)
    ELSE IF InvalidSuppliedAmount(body.price_cents) THEN Failure(400, "invalid price", 0)
    ELSE IF InvalidSuppliedAmount(body.inventory_count)
         THEN Failure(400, "invalid inventory count", 0)
    ELSE IF SkuConflict(vs, id, CHOOSE v \in VariantById(vs, id) : TRUE, body.sku)
         THEN Failure(409, "sku already exists", 0)
    ELSE IF Len(UpdateColumns(body)) = 0 THEN Failure(400, "no fields to update", 0)
    ELSE Success(200, <<>>)

PutVariant(id, body) ==
    LET checked == ValidateVariantUpdate(variants, id, body)
    IN  IF checked.status # 200
        THEN /\ last' = Exchange("PUT /variants/:id", id, body, 0, checked)
             /\ UNCHANGED <<products, variants, variantSeq, now, tieOrder, createPage, variantRow, pending>>
        ELSE LET existing == CHOOSE v \in VariantById(variants, id) : TRUE
                 updated == UpdateVariantRow(existing, body, now)
             IN  /\ variants' = (variants \ {existing}) \cup {updated}
                 /\ last' = Exchange("PUT /variants/:id", id, body, 0, Success(200, updated))
                 /\ UNCHANGED <<products, variantSeq, now, tieOrder, createPage, variantRow, pending>>

(***************************************************************************)
(* DELETE /api/variants/:id                                                *)
(***************************************************************************)

\* a guard that refuses only when no sibling row is counted at all
IsLastVariantOffByOne(vs, variant) == Cardinality(VariantsOf(vs, variant.product_id)) < 1

\* SELECT COUNT(*) AS count FROM variants WHERE product_id = ?; count <= 1
IsLastVariant(vs, variant) == Cardinality(VariantsOf(vs, variant.product_id)) <= 1

\* a handler that removes the row and then looks at what is left
DeleteVariantGuardAfterRemoval(id) ==
    IF VariantById(variants, id) = {}
    THEN /\ last' = Exchange("DELETE /variants/:id", id, <<>>, 0,
                             Failure(404, "variant not found", 0))
         /\ UNCHANGED <<products, variants, variantSeq, now, tieOrder, createPage, variantRow, pending>>
    ELSE LET variant == CHOOSE v \in VariantById(variants, id) : TRUE
         IN  /\ variants' = variants \ {variant}
             /\ last' = Exchange("DELETE /variants/:id", id, <<>>, 0,
                                 IF VariantsOf(variants', variant.product_id) = {}
                                 THEN Failure(400, "cannot delete last variant", 0)
                                 ELSE Success(200, [success |-> TRUE]))
             /\ UNCHANGED <<products, variantSeq, now, tieOrder, createPage, variantRow, pending>>

\* a handler that answers success and leaves the row where it is
DeleteVariantKeepsRow(id) ==
    IF VariantById(variants, id) = {}
    THEN /\ last' = Exchange("DELETE /variants/:id", id, <<>>, 0,
                             Failure(404, "variant not found", 0))
         /\ UNCHANGED <<products, variants, variantSeq, now, tieOrder, createPage, variantRow, pending>>
    ELSE LET variant == CHOOSE v \in VariantById(variants, id) : TRUE
         IN  IF IsLastVariant(variants, variant)
             THEN /\ last' = Exchange("DELETE /variants/:id", id, <<>>, 0,
                                      Failure(400, "cannot delete last variant", 0))
                  /\ UNCHANGED <<products, variants, variantSeq, now, tieOrder, createPage, variantRow, pending>>
             ELSE /\ last' = Exchange("DELETE /variants/:id", id, <<>>, 0,
                                      Success(200, [success |-> TRUE]))
                  /\ UNCHANGED <<products, variants, variantSeq, now, tieOrder, createPage, variantRow, pending>>

DeleteVariant(id) ==
    IF VariantById(variants, id) = {}
    THEN /\ last' = Exchange("DELETE /variants/:id", id, <<>>, 0,
                             Failure(404, "variant not found", 0))
         /\ UNCHANGED <<products, variants, variantSeq, now, tieOrder, createPage, variantRow, pending>>
    ELSE LET variant == CHOOSE v \in VariantById(variants, id) : TRUE
         IN  IF IsLastVariant(variants, variant)
             THEN /\ last' = Exchange("DELETE /variants/:id", id, <<>>, 0,
                                      Failure(400, "cannot delete last variant", 0))
                  /\ UNCHANGED <<products, variants, variantSeq, now, tieOrder, createPage, variantRow, pending>>
             ELSE /\ variants' = variants \ {variant}
                  /\ last' = Exchange("DELETE /variants/:id", id, <<>>, 0,
                                      Success(200, [success |-> TRUE]))
                  /\ UNCHANGED <<products, variantSeq, now, tieOrder, createPage, variantRow, pending>>

(***************************************************************************)
(* PUT and DELETE /api/variants/:id on several server processes, statement *)
(* by statement: neither handler opens a transaction, so every statement   *)
(* is its own access to the store.                                         *)
(***************************************************************************)

\* an UPDATE that writes back the row as the handler read it, with the
\* fields of the request changed
ApplyUpdateFromRead(current, read, body, t) == UpdateVariantRow(read, body, t)

\* UPDATE variants SET <supplied columns>, updated_at = datetime('now')
\* WHERE id = ?: current is the row in the table, read the row the handler
\* selected before
ApplyUpdate(current, read, body, t) == UpdateVariantRow(current, body, t)

\* step 1, SELECT * FROM variants WHERE id = ?, and step 2, the checks of the
\* fields (which read nothing)
BeginUpdateVariant(w, id, body) ==
    /\ ~pending[w].busy
    /\ LET checked == ValidateVariantUpdate(VariantById(variants, id), id, body)
       IN  IF checked.status # 200
           THEN /\ last' = Exchange("PUT /variants/:id", id, body, 0, checked)
                /\ UNCHANGED pending
           ELSE LET existing == CHOOSE v \in VariantById(variants, id) : TRUE
                    stage == IF body.sku.t # "undefined" /\ Trim(body.sku.s) # existing.sku
                             THEN "check" ELSE "write"
                IN  /\ pending' = [pending EXCEPT
                                      ![w] = InFlight("PUT /variants/:id", stage, id, body,
                                                      existing)]
                    /\ UNCHANGED last
    /\ UNCHANGED <<products, variants, variantSeq, now, tieOrder, createPage, variantRow>>

\* step 3, SELECT id FROM variants WHERE sku = ? AND id != ?
CheckUpdateVariant(w) ==
    /\ pending[w].busy
    /\ pending[w].op = "PUT /variants/:id"
    /\ pending[w].stage = "check"
    /\ IF SkuConflict(variants, pending[w].id, pending[w].read, pending[w].body.sku)
       THEN /\ last' = Exchange("PUT /variants/:id", pending[w].id, pending[w].body, 0,
                                Failure(409, "sku already exists", 0))
            /\ pending' = [pending EXCEPT ![w] = NoRequest]
       ELSE /\ pending' = [pending EXCEPT ![w].stage = "write"]
            /\ UNCHANGED last
    /\ UNCHANGED <<products, variants, variantSeq, now, tieOrder, createPage, variantRow>>

\* step 4, the UPDATE; it changes no row when the variant is gone
WriteUpdateVariant(w) ==
    /\ pending[w].busy
    /\ pending[w].op = "PUT /variants/:id"
    /\ pending[w].stage = "write"
    /\ variants' = {IF v.id = pending[w].id
                    THEN ApplyUpdate(v, pending[w].read, pending[w].body, now)
                    ELSE v : v \in variants}
    /\ pending' = [pending EXCEPT ![w].stage = "respond"]
    /\ UNCHANGED <<products, variantSeq, now, tieOrder, createPage, variantRow, last>>

\* step 5, SELECT * FROM variants WHERE id = ? and res.json(updated)
RespondUpdateVariant(w) ==
    /\ pending[w].busy
    /\ pending[w].op = "PUT /variants/:id"
    /\ pending[w].stage = "respond"
    /\ last' = Exchange("PUT /variants/:id", pending[w].id, pending[w].body, 0,
                        Success(200, IF VariantById(variants, pending[w].id) = {} THEN Undefined
                                     ELSE CHOOSE v \in VariantById(variants, pending[w].id) : TRUE))
    /\ pending' = [pending EXCEPT ![w] = NoRequest]
    /\ UNCHANGED <<products, variants, variantSeq, now, tieOrder, createPage, variantRow>>

\* SELECT * FROM variants WHERE id = ?
BeginDeleteVariant(w, id) ==
    /\ ~pending[w].busy
    /\ IF VariantById(variants, id) = {}
       THEN /\ last' = Exchange("DELETE /variants/:id", id, <<>>, 0,
                                Failure(404, "variant not found", 0))
            /\ UNCHANGED pending
       ELSE /\ pending' = [pending EXCEPT
                              ![w] = InFlight("DELETE /variants/:id", "count", id, <<>>,
                                              CHOOSE v \in VariantById(variants, id) : TRUE)]
            /\ UNCHANGED last
    /\ UNCHANGED <<products, variants, variantSeq, now, tieOrder, createPage, variantRow>>

\* SELECT COUNT(*) AS count FROM variants WHERE product_id = ? and the guard
CountDeleteVariant(w) ==
    /\ pending[w].busy
    /\ pending[w].op = "DELETE /variants/:id"
    /\ pending[w].stage = "count"
    /\ IF IsLastVariant(variants, pending[w].read)
       THEN /\ last' = Exchange("DELETE /variants/:id", pending[w].id, <<>>, 0,
                                Failure(400, "cannot delete last variant", 0))
            /\ pending' = [pending EXCEPT ![w] = NoRequest]
       ELSE /\ pending' = [pending EXCEPT ![w].stage = "write"]
            /\ UNCHANGED last
    /\ UNCHANGED <<products, variants, variantSeq, now, tieOrder, createPage, variantRow>>

\* DELETE FROM variants WHERE id = ? and res.json({ success: true })
WriteDeleteVariant(w) ==
    /\ pending[w].busy
    /\ pending[w].op = "DELETE /variants/:id"
    /\ pending[w].stage = "write"
    /\ variants' = variants \ VariantById(variants, pending[w].id)
    /\ last' = Exchange("DELETE /variants/:id", pending[w].id, <<>>, 0,
                        Success(200, [success |-> TRUE]))
    /\ pending' = [pending EXCEPT ![w] = NoRequest]
    /\ UNCHANGED <<products, variantSeq, now, tieOrder, createPage, variantRow>>

(***************************************************************************)
(* A failing store.  Any prepared statement may throw (a locked or         *)
(* unreadable database file); the handler's try/catch, where it has one,   *)
(* turns the exception into a 500 response.                                *)
(***************************************************************************)
Handlers ==
    {"GET /products", "GET /products/:id", "POST /products", "PUT /products/:id",
     "DELETE /products/:id", "GET /variants/:id", "PUT /variants/:id",
     "DELETE /variants/:id"}

\* the handler's statements are inside a try block with a catch
HasCatch(op) == op # "DELETE /products/:id"

\* no response is sent by the handler: the exception leaves it
Escaped == [status |-> 0, error |-> "exception escaped", index |-> 0, body |-> <<>>]

\* the first statement of the handler throws; nothing has been written
StorageFails(op, id) ==
    /\ last' = Exchange(op, id, <<>>, 1,
                        IF HasCatch(op) THEN Failure(500, "storage error", 0) ELSE Escaped)
    /\ UNCHANGED <<products, variants, variantSeq, now, tieOrder, createPage, variantRow, pending>>

(***************************************************************************)
(* Requests.  A family of inputs names the request bodies, queries and ids *)
(* the clients send; every specification runs all eight handlers.          *)
(***************************************************************************)
NoAmount == Undefined

Item(sku, name, price_cents, inventory_count) ==
    [sku |-> sku, name |-> name, price_cents |-> price_cents,
     inventory_count |-> inventory_count]

\* the sequences over S of length lo to hi
SeqsOf(S, lo, hi) == UNION {[1..n -> S] : n \in lo..hi}

CreateBody(name, description, category_id, status, isArray, items) ==
    [name |-> name, description |-> description, category_id |-> category_id,
     status |-> status, variants |-> [isArray |-> isArray, items |-> items]]

VariantBody(name, sku, price_cents, inventory_count) ==
    [name |-> name, sku |-> sku, price_cents |-> price_cents,
     inventory_count |-> inventory_count]

ProductBody(name, description, category_id, status) ==
    [name |-> name, description |-> description, category_id |-> category_id,
     status |-> status]

Query(search, category_id) == [search |-> search, category_id |-> category_id]

ProductIds == 1..MaxProducts

VariantIds == 1..MaxVariantId

\* the clients of the SKU rules: SKUs with and without padding, batches with
\* repeated SKUs
SkuItems ==
    {Item(Str(s), Str(<<"n">>), Num(5), NoAmount) : s \in {<<"A">>, <<" ", "A">>, <<"B">>}}

SkuInputs ==
    [create |-> {CreateBody(Str(<<"P">>), Undefined, Null, Undefined, TRUE, items) :
                    items \in SeqsOf(SkuItems, 0, MaxBatch)},
     faults |-> 0..(MaxBatch + 1),
     query |-> {Query(Undefined, Undefined)},
     getProduct |-> {1},
     putProduct |-> {1} \X {ProductBody(Str(<<"Q">>), Undefined, Undefined, Undefined)},
     deleteProduct |-> {1},
     getVariant |-> {1},
     putVariant |-> {1, 2} \X
                    {VariantBody(Undefined, Str(s), Undefined, Undefined) :
                        s \in {<<"A">>, <<"B", " ">>, <<"C">>}},
     deleteVariant |-> {1, 2}]

Requests(in) ==
    \/ \E body \in in.create : PostProduct(body, in.faults)
    \/ \E query \in in.query : GetProducts(query)
    \/ \E id \in in.getProduct : GetProduct(id)
    \/ \E r \in in.putProduct : PutProduct(r[1], r[2])
    \/ \E id \in in.deleteProduct : DeleteProduct(id)
    \/ \E id \in in.getVariant : GetVariant(id)
    \/ \E r \in in.putVariant : PutVariant(r[1], r[2])
    \/ \E id \in in.deleteVariant : DeleteVariant(id)

Next == Requests(SkuInputs)

Spec == Init /\ [][Next]_vars

\* the clients of the variant editor: every subset of the four fields, with
\* padded strings, and fields of the wrong type or out of range
FieldInputs ==
    [create |-> {CreateBody(Str(<<"P">>), Undefined, Null, Undefined, TRUE,
                            <<Item(Str(<<"A">>), Str(<<"n">>), Num(5), Num(3))>>)},
     faults |-> {0},
     query |-> {Query(Undefined, Undefined)},
     getProduct |-> {1},
     putProduct |-> {1} \X {ProductBody(Str(<<"Q">>), Undefined, Undefined, Undefined)},
     deleteProduct |-> {1},
     getVariant |-> {1},
     putVariant |-> {1, 2} \X
                    ({VariantBody(name, sku, price_cents, inventory_count) :
                         name \in {Undefined, Str(<<" ", "m">>)},
                         sku \in {Undefined, Str(<<"B", " ">>)},
                         price_cents \in {Undefined, Num(7)},
                         inventory_count \in {Undefined, Num(9)}}
                     \cup {VariantBody(Null, Undefined, Num(7), Undefined),
                           VariantBody(Undefined, Undefined, Num(-1), Num(9))}),
     deleteVariant |-> {1}]

NextFields == Requests(FieldInputs)

SpecFields == Init /\ [][NextFields]_vars

\* the clients of the listing: products with and without a category and a
\* description, and every combination of the two filters, empty ones included
ReadInputs ==
    [create |-> {CreateBody(Str(<<"A", "b">>), Undefined, Num(1), Undefined, TRUE,
                            <<Item(Str(<<"A">>), Str(<<"n">>), Num(5), Num(3))>>),
                 CreateBody(Str(<<"b">>), Str(<<"x", "a">>), Num(1), Undefined, TRUE,
                            <<Item(Str(<<"B">>), Str(<<"n">>), Num(5), Num(3))>>),
                 CreateBody(Str(<<"X">>), Undefined, Null, Undefined, TRUE,
                            <<Item(Str(<<"C">>), Str(<<"n">>), Num(5), Num(3))>>)},
     faults |-> {0},
     query |-> {Query(search, category_id) :
                   search \in {Undefined, Str(<<>>), Str(<<"a">>)},
                   category_id \in {Undefined, Str(<<>>), Str(<<"0">>), Str(<<"1">>)}},
     getProduct |-> ProductIds,
     putProduct |-> {1} \X {ProductBody(Undefined, Undefined, Num(2), Undefined)},
     deleteProduct |-> ProductIds,
     getVariant |-> {1},
     putVariant |-> {1} \X {VariantBody(Undefined, Undefined, Num(7), Undefined)},
     deleteVariant |-> {1}]

NextRead == Requests(ReadInputs)

SpecRead == Init /\ [][NextRead]_vars

\* the clients of the product editor: products with and without a category,
\* one naming a category that does not exist; updates with every subset of
\* the four fields, null values and a category that does not exist
ProductInputs ==
    [create |-> {CreateBody(Str(<<"P">>), Str(<<"d">>), Num(1), Draft, TRUE,
                            <<Item(Str(<<"A">>), Str(<<"n">>), Num(5), Num(3)),
                              Item(Str(<<"B">>), Str(<<"n">>), Num(6), NoAmount)>>),
                 CreateBody(Str(<<"N">>), Undefined, Null, Undefined, TRUE,
                            <<Item(Str(<<"C">>), Str(<<"n">>), Num(5), Num(3))>>),
                 CreateBody(Str(<<"M">>), Undefined, Num(9), Undefined, TRUE,
                            <<Item(Str(<<"D">>), Str(<<"n">>), Num(5), Num(3))>>)},
     faults |-> {0},
     query |-> {Query(Undefined, Undefined)},
     getProduct |-> ProductIds,
     putProduct |-> {1} \X
                    ({ProductBody(name, description, category_id, status) :
                         name \in {Undefined, Str(<<"Q">>)},
                         description \in {Undefined, Str(<<"e">>)},
                         category_id \in {Undefined, Num(2)},
                         status \in {Undefined, Archived}}
                     \cup {ProductBody(Undefined, Null, Undefined, Undefined),
                           ProductBody(Undefined, Undefined, Null, Undefined),
                           ProductBody(Str(<<"Q">>), Null, Null, Null),
                           ProductBody(Undefined, Undefined, Num(9), Undefined)}),
     deleteProduct |-> {1},
     getVariant |-> {1},
     putVariant |-> VariantIds \X {VariantBody(Undefined, Str(<<"A", " ">>), Undefined, Undefined)},
     deleteVariant |-> {1}]

NextProduct == Requests(ProductInputs)

SpecProduct == Init /\ [][NextProduct]_vars

\* the clients of the timestamps: one product, updates with and without
\* fields, while the clock runs
ClockInputs ==
    [create |-> {CreateBody(Str(<<"P">>), Undefined, Num(1), Undefined, TRUE,
                            <<Item(Str(<<"A">>), Str(<<"n">>), Num(5), Num(3))>>)},
     faults |-> {0},
     query |-> {Query(Undefined, Undefined)},
     getProduct |-> {1},
     putProduct |-> {1} \X {ProductBody(Str(<<"Q">>), Undefined, Undefined, Undefined)},
     deleteProduct |-> {1},
     getVariant |-> {1},
     putVariant |-> {1} \X {VariantBody(Undefined, Undefined, Undefined, Undefined),
                            VariantBody(Undefined, Undefined, Num(7), Undefined),
                            VariantBody(Str(<<"n">>), Undefined, Undefined, Undefined)},
     deleteVariant |-> {1}]

NextClock == Requests(ClockInputs) \/ Tick

SpecClock == Init /\ [][NextClock]_vars

\* the requests of ClockInputs against a store that may fail
NextFaults == NextClock \/ \E op \in Handlers : StorageFails(op, 1)

SpecFaults == Init /\ [][NextFaults]_vars

\* the clients of two server processes: create requests that share a SKU
RaceBodies ==
    {CreateBody(Str(<<"P">>), Undefined, Null, Undefined, TRUE,
                <<Item(Str(<<"A">>), Str(<<"n">>), Num(5), NoAmount)>>),
     CreateBody(Str(<<"R">>), Undefined, Null, Undefined, TRUE,
                <<Item(Str(<<"B">>), Str(<<"n">>), Num(5), NoAmount),
                  Item(Str(<<" ", "A">>), Str(<<"n">>), Num(5), NoAmount)>>)}

NextRace ==
    \/ \E w \in Workers, body \in RaceBodies : BeginCreate(w, body)
    \/ \E w \in Workers : FinishCreate(w)
    \/ \E id \in ProductIds : GetProduct(id)
    \/ GetProducts(Query(Undefined, Undefined))

SpecRace == Init /\ [][NextRace]_vars

\* the clients of two server processes that edit the two variants of one
\* product: updates of one field each, a SKU change, and deletes
InterleaveBodies ==
    {VariantBody(Undefined, Undefined, Num(7), Undefined),
     VariantBody(Undefined, Undefined, Undefined, Num(9)),
     VariantBody(Undefined, Str(<<"B">>), Undefined, Undefined)}

NextInterleave ==
    \/ \E w \in Workers :
          BeginCreate(w, CreateBody(Str(<<"P">>), Undefined, Num(1), Undefined, TRUE,
                                    <<Item(Str(<<"A">>), Str(<<"n">>), Num(5), Num(3)),
                                      Item(Str(<<"B">>), Str(<<"n">>), Num(6), NoAmount)>>))
    \/ \E w \in Workers : FinishCreate(w)
    \/ \E w \in Workers, body \in InterleaveBodies : BeginUpdateVariant(w, 1, body)
    \/ \E w \in Workers : CheckUpdateVariant(w)
    \/ \E w \in Workers : WriteUpdateVariant(w)
    \/ \E w \in Workers : RespondUpdateVariant(w)
    \/ \E w \in Workers, id \in {1, 2} : BeginDeleteVariant(w, id)
    \/ \E w \in Workers : CountDeleteVariant(w)
    \/ \E w \in Workers : WriteDeleteVariant(w)
    \/ GetProducts(Query(Undefined, Undefined))

SpecInterleave == Init /\ [][NextInterleave]_vars

\* the clients of the validation: fields that are padded, empty, zero,
\* negative, null, absent or outside their enumeration, in creates and in
\* updates of products and variants
ValidationInputs ==
    [create |-> {CreateBody(Str(<<" ", "P", " ">>), Undefined, Undefined, Undefined, TRUE,
                            <<Item(Str(<<" ", "A", " ">>), Str(<<" ", "n">>), NoAmount, NoAmount)>>),
                 CreateBody(Str(<<"R">>), Undefined, Undefined, Draft, TRUE,
                            <<Item(Str(<<"B">>), Str(<<"n">>), Num(0), Num(0))>>),
                 CreateBody(Str(<<"R">>), Undefined, Undefined, Null, TRUE,
                            <<Item(Str(<<"B">>), Str(<<"n">>), Null, Num(3))>>),
                 CreateBody(Str(<<" ", " ">>), Undefined, Undefined, Undefined, TRUE,
                            <<Item(Str(<<"B">>), Str(<<"n">>), Num(5), Num(3))>>),
                 CreateBody(Str(<<"R">>), Undefined, Undefined, Str(<<"s", "o", "l", "d">>), TRUE,
                            <<Item(Str(<<"B">>), Str(<<"n">>), Num(5), Num(3))>>),
                 CreateBody(Str(<<"R">>), Undefined, Undefined, Undefined, TRUE,
                            <<Item(Str(<<"B">>), Str(<<"n">>), Num(-1), Num(3))>>),
                 CreateBody(Str(<<"R">>), Undefined, Undefined, Undefined, TRUE,
                            <<Item(Str(<<"B">>), Str(<<"n">>), Num(5), Num(-1))>>),
                 CreateBody(Str(<<"R">>), Undefined, Undefined, Undefined, TRUE,
                            <<Item(Str(<<" ", " ">>), Str(<<"n">>), Num(5), Num(3))>>),
                 CreateBody(Str(<<"R">>), Undefined, Undefined, Undefined, TRUE,
                            <<Item(Str(<<"B">>), Str(<<>>), Num(5), Num(3))>>)},
     faults |-> {0},
     query |-> {Query(Undefined, Undefined)},
     getProduct |-> {1},
     putProduct |-> {1} \X
                    {ProductBody(Str(<<" ", "Q">>), Undefined, Undefined, Undefined),
                     ProductBody(Str(<<>>), Undefined, Undefined, Undefined),
                     ProductBody(Undefined, Undefined, Undefined, Archived),
                     ProductBody(Undefined, Undefined, Undefined, Str(<<"s", "o", "l", "d">>))},
     deleteProduct |-> {1},
     getVariant |-> {1},
     putVariant |-> {1} \X
                    {VariantBody(Str(<<" ", "m", " ">>), Undefined, Undefined, Undefined),
                     VariantBody(Str(<<" ">>), Undefined, Undefined, Undefined),
                     VariantBody(Undefined, Str(<<" ", "C">>), Undefined, Undefined),
                     VariantBody(Undefined, Str(<<>>), Undefined, Undefined),
                     VariantBody(Undefined, Undefined, Num(0), Num(0)),
                     VariantBody(Undefined, Undefined, Num(-1), Undefined),
                     VariantBody(Undefined, Undefined, Undefined, Num(-1)),
                     VariantBody(Undefined, Undefined, Null, Undefined)},
     deleteVariant |-> {1}]

NextValidation == Requests(ValidationInputs)

SpecValidation == Init /\ [][NextValidation]_vars

\* the clients of the validation order: create payloads that break two rules
\* at once, at the product and at a variant, at two variants, or twice at
\* one variant
OrderItemA == Item(Str(<<"A">>), Str(<<"n">>), Num(5), Num(3))

OrderItemB == Item(Str(<<"B">>), Str(<<"n">>), Num(5), Num(3))

OrderInputs ==
    [create |-> {CreateBody(Str(<<"P">>), Undefined, Num(1), Undefined, TRUE,
                            <<OrderItemA, OrderItemB>>),
                 CreateBody(Str(<<" ">>), Undefined, Undefined, Undefined, FALSE, <<>>),
                 CreateBody(Str(<<"R">>), Undefined, Num(9), Str(<<"s", "o", "l", "d">>), TRUE,
                            <<>>),
                 CreateBody(Str(<<"R">>), Undefined, Num(9), Str(<<"s", "o", "l", "d">>), TRUE,
                            <<Item(Undefined, Str(<<"n">>), Num(5), Num(3))>>),
                 CreateBody(Str(<<"R">>), Undefined, Num(9), Undefined, TRUE,
                            <<Item(Undefined, Str(<<"n">>), Num(5), Num(3))>>),
                 CreateBody(Str(<<"R">>), Undefined, Undefined, Undefined, TRUE,
                            <<Item(Str(<<"C">>), Str(<<>>), Num(5), Num(3)),
                              Item(Str(<<" ">>), Str(<<"n">>), Num(5), Num(3))>>),
                 CreateBody(Str(<<"R">>), Undefined, Undefined, Undefined, TRUE,
                            <<Item(Undefined, Undefined, Num(-1), Num(-1))>>),
                 CreateBody(Str(<<"R">>), Undefined, Undefined, Undefined, TRUE,
                            <<Item(Str(<<"C">>), Str(<<"n">>), Num(-1), Num(-1))>>),
                 CreateBody(Str(<<"R">>), Undefined, Undefined, Undefined, TRUE,
                            <<Item(Str(<<"C">>), Str(<<"n">>), Num(5), Num(3)),
                              Item(Str(<<"C", " ">>), Str(<<"n">>), Num(5), Num(-1))>>),
                 CreateBody(Str(<<"R">>), Undefined, Undefined, Undefined, TRUE,
                            <<OrderItemA, Item(Str(<<"A">>), Str(<<"n">>), Num(5), Num(3))>>),
                 CreateBody(Str(<<"R">>), Undefined, Undefined, Undefined, TRUE,
                            <<Item(Str(<<"C">>), Str(<<"n">>), Num(5), Num(3)), OrderItemB>>),
                 CreateBody(Str(<<"R">>), Undefined, Undefined, Undefined, TRUE,
                            <<OrderItemB, Item(Str(<<"C">>), Undefined, Num(5), Num(3))>>)},
     faults |-> {0},
     query |-> {Query(Undefined, Undefined)},
     getProduct |-> {1},
     putProduct |-> {1} \X {ProductBody(Str(<<"Q">>), Undefined, Undefined, Undefined)},
     deleteProduct |-> {1},
     getVariant |-> {1},
     putVariant |-> {1} \X {VariantBody(Undefined, Str(<<"C">>), Undefined, Undefined)},
     deleteVariant |-> {1, 2}]

NextOrder == Requests(OrderInputs)

SpecOrder == Init /\ [][NextOrder]_vars

\* the clients that take a SKU up again: a product with the SKUs A and B,
\* whose variant 1 may be deleted and whose variant 2 may be given the SKU C
\* or A, and creates that ask for A and for B
ReleaseInputs ==
    [create |-> {CreateBody(Str(<<"P">>), Undefined, Undefined, Undefined, TRUE,
                            <<OrderItemA, OrderItemB>>),
                 CreateBody(Str(<<"R">>), Undefined, Undefined, Undefined, TRUE, <<OrderItemA>>),
                 CreateBody(Str(<<"S">>), Undefined, Undefined, Undefined, TRUE, <<OrderItemB>>)},
     faults |-> {0},
     query |-> {Query(Undefined, Undefined)},
     getProduct |-> {1},
     putProduct |-> {1} \X {ProductBody(Str(<<"Q">>), Undefined, Undefined, Undefined)},
     deleteProduct |-> {1},
     getVariant |-> {1},
     putVariant |-> {2} \X {VariantBody(Undefined, Str(<<"C">>), Undefined, Undefined),
                            VariantBody(Undefined, Str(<<"A">>), Undefined, Undefined)},
     deleteVariant |-> {1}]

NextRelease == Requests(ReleaseInputs)

SpecRelease == Init /\ [][NextRelease]_vars

(***************************************************************************)
(* The client.  A React event handler runs to its first await and React    *)
(* renders before the next event is dispatched, so an element rendered     *)
(* with disabled={flag} takes no event once the handler has set the flag.  *)
(* createProduct and updateVariant are fetch calls: each settles later     *)
(* with a response that is ok, with one that is not, or with a rejection.  *)
(***************************************************************************)

\* parseFloat(text) in hundredths, as Math.round(parseFloat(text) * 100)
\* finds them; NaN for a text that is no number
ParseFloatCents(text) ==
    CASE text = "5.00" -> Num(500)
      [] text = "7" -> Num(700)
      [] text = "-1" -> Num(-100)
      [] OTHER -> NaN

\* parseInt(text, 10)
ParseInt(text) ==
    CASE text = "3" -> Num(3)
      [] text = "9" -> Num(9)
      [] text = "-1" -> Num(-1)
      [] OTHER -> NaN

\* (cents / 100).toFixed(2)
ToFixed2(cents) ==
    CASE cents = 500 -> "5.00"
      [] cents = 700 -> "7.00"
      [] OTHER -> "0.00"

\* String(n)
ToText(n) ==
    CASE n = 3 -> "3"
      [] n = 9 -> "9"
      [] OTHER -> "0"

\* isNaN(x) || x < 0
NaNOrNegative(x) == x.t # "number" \/ x.n < 0

FieldError(field, index) == [field |-> field, index |-> index]

\* the SKUs of the rows before row i that validate() has added to seenSkus
RECURSIVE SeenSkus(_, _)
SeenSkus(rows, i) ==
    IF i <= 1 THEN {}
    ELSE SeenSkus(rows, i - 1)
         \cup (IF Trim(rows[i - 1].sku) # <<>> THEN {Trim(rows[i - 1].sku)} ELSE {})

\* validate(): the errors it collects
ValidationErrors(form) ==
    (IF Trim(form.productName) = <<>> THEN {FieldError("productName", 0)} ELSE {})
    \cup (IF Len(form.variants) = 0 THEN {FieldError("variants", 0)} ELSE {})
    \cup {FieldError("sku", i - 1) : i \in {j \in 1..Len(form.variants) :
              \/ Trim(form.variants[j].sku) = <<>>
              \/ Trim(form.variants[j].sku) \in SeenSkus(form.variants, j)}}
    \cup {FieldError("name", i - 1) : i \in {j \in 1..Len(form.variants) :
              Trim(form.variants[j].name) = <<>>}}
    \cup {FieldError("price", i - 1) : i \in {j \in 1..Len(form.variants) :
              /\ form.variants[j].price # ""
              /\ NaNOrNegative(ParseFloatCents(form.variants[j].price))}}
    \cup {FieldError("inventory", i - 1) : i \in {j \in 1..Len(form.variants) :
              /\ form.variants[j].inventory_count # ""
              /\ NaNOrNegative(ParseInt(form.variants[j].inventory_count))}}

\* the body handleSubmit builds
FormBody(form) ==
    [name |-> Trim(form.productName),
     variants |-> [i \in 1..Len(form.variants) |->
                     [sku |-> Trim(form.variants[i].sku),
                      name |-> Trim(form.variants[i].name),
                      price_cents |-> IF form.variants[i].price # ""
                                      THEN ParseFloatCents(form.variants[i].price).n ELSE 0,
                      inventory_count |-> IF form.variants[i].inventory_count # ""
                                          THEN ParseInt(form.variants[i].inventory_count).n
                                          ELSE 0]]]

\* <button type="submit" disabled={submitting}>: the form's only submit
\* button; a form whose submit button is disabled is not submitted, by a
\* click or by the Enter key
SubmitDisabled == createPage.submitting

\* the ways a fetch settles: ok, a response that is not ok with and without
\* an error in its JSON, a rejected promise
Outcomes == {"ok", "error", "unreadable", "rejected"}

\* the message the catch block shows for an outcome
Message(outcome) ==
    CASE outcome = "error" -> "data.error"
      [] outcome = "unreadable" -> "Server error (status)"
      [] outcome = "rejected" -> "err.message"
      [] OTHER -> NoError

setProductName(value) ==
    /\ createPage.mounted
    /\ createPage' = [createPage EXCEPT !.productName = value]
    /\ UNCHANGED <<server, variantRow>>

addVariant ==
    /\ createPage.mounted
    /\ Len(createPage.variants) < MaxBatch
    /\ createPage' = [createPage EXCEPT !.variants = Append(@, emptyVariant)]
    /\ UNCHANGED <<server, variantRow>>

removeVariant(i) ==
    /\ createPage.mounted
    /\ i \in 1..Len(createPage.variants)
    /\ createPage' = [createPage EXCEPT
                         !.variants = SubSeq(@, 1, i - 1) \o SubSeq(@, i + 1, Len(@))]
    /\ UNCHANGED <<server, variantRow>>

updateVariant(i, field, value) ==
    /\ createPage.mounted
    /\ i \in 1..Len(createPage.variants)
    /\ createPage' = [createPage EXCEPT !.variants[i][field] = value]
    /\ UNCHANGED <<server, variantRow>>

\* a submit handler that does not raise the submitting flag
handleSubmitWithoutFlag ==
    /\ createPage.mounted
    /\ ~SubmitDisabled
    /\ Len(createPage.requests) < MaxInFlight
    /\ IF ValidationErrors(createPage) # {}
       THEN createPage' = [createPage EXCEPT !.error = NoError,
                                             !.fieldErrors = ValidationErrors(createPage)]
       ELSE createPage' = [createPage EXCEPT !.error = NoError,
                                             !.fieldErrors = {},
                                             !.requests = Append(@, FormBody(createPage))]
    /\ UNCHANGED <<server, variantRow>>

\* handleSubmit up to await createProduct(body)
handleSubmit ==
    /\ createPage.mounted
    /\ ~SubmitDisabled
    /\ Len(createPage.requests) < MaxInFlight
    /\ IF ValidationErrors(createPage) # {}
       THEN createPage' = [createPage EXCEPT !.error = NoError,
                                             !.fieldErrors = ValidationErrors(createPage)]
       ELSE createPage' = [createPage EXCEPT !.error = NoError,
                                             !.fieldErrors = {},
                                             !.submitting = TRUE,
                                             !.requests = Append(@, FormBody(createPage))]
    /\ UNCHANGED <<server, variantRow>>

\* handleSubmit from the await on: navigate on success, setError in the
\* catch block, setSubmitting(false) in the finally block
createProductSettles(i, outcome) ==
    /\ i \in 1..Len(createPage.requests)
    /\ createPage' = [createPage EXCEPT
                         !.requests = SubSeq(@, 1, i - 1) \o SubSeq(@, i + 1, Len(@)),
                         !.mounted = IF outcome = "ok" THEN FALSE ELSE @,
                         !.error = IF outcome = "ok" THEN @ ELSE Message(outcome),
                         !.submitting = FALSE]
    /\ UNCHANGED <<server, variantRow>>

\* the page is opened again
openCreatePage ==
    /\ ~createPage.mounted
    /\ createPage.requests = <<>>
    /\ createPage' = NewCreatePage
    /\ UNCHANGED <<server, variantRow>>

NextCreatePage ==
    \/ \E value \in {<<>>, <<"P", " ">>} : setProductName(value)
    \/ addVariant
    \/ \E i \in 1..MaxBatch : removeVariant(i)
    \/ \E i \in 1..MaxBatch, value \in {<<>>, <<"A">>} : updateVariant(i, "sku", value)
    \/ \E i \in 1..MaxBatch, value \in {<<"n">>} : updateVariant(i, "name", value)
    \/ \E value \in {"", "-1"} : updateVariant(1, "price", value)
    \/ handleSubmit
    \/ \E i \in 1..MaxInFlight, outcome \in Outcomes : createProductSettles(i, outcome)
    \/ openCreatePage

SpecCreatePage == Init /\ [][NextCreatePage]_vars

startEditing ==
    /\ ~variantRow.editing
    /\ variantRow' = [variantRow EXCEPT
                         !.price = ToFixed2(variantRow.variant.price_cents),
                         !.inventory = ToText(variantRow.variant.inventory_count),
                         !.error = NoError,
                         !.editing = TRUE]
    /\ UNCHANGED <<server, createPage>>

cancel == variantRow' = [variantRow EXCEPT !.editing = FALSE, !.error = NoError]

\* <button onClick={cancel} disabled={saving}>, rendered in edit mode
ClickCancel ==
    /\ variantRow.editing
    /\ ~variantRow.saving
    /\ cancel
    /\ UNCHANGED <<server, createPage>>

\* onChange of the price input
setPrice(value) ==
    /\ variantRow.editing
    /\ variantRow' = [variantRow EXCEPT !.price = value]
    /\ UNCHANGED <<server, createPage>>

\* onChange of the inventory input
setInventory(value) ==
    /\ variantRow.editing
    /\ variantRow' = [variantRow EXCEPT !.inventory = value]
    /\ UNCHANGED <<server, createPage>>

\* save() up to await updateVariant(...)
save ==
    /\ Len(variantRow.requests) < MaxInFlight
    /\ IF NaNOrNegative(ParseFloatCents(variantRow.price))
       THEN variantRow' = [variantRow EXCEPT !.error = "Price must be >= 0"]
       ELSE IF NaNOrNegative(ParseInt(variantRow.inventory))
       THEN variantRow' = [variantRow EXCEPT !.error = "Inventory must be >= 0"]
       ELSE variantRow' = [variantRow EXCEPT
                              !.saving = TRUE,
                              !.error = NoError,
                              !.requests =
                                  Append(@, [price_cents |-> ParseFloatCents(variantRow.price).n,
                                             inventory_count |-> ParseInt(variantRow.inventory).n])]

\* <button onClick={save} disabled={saving}>, rendered in edit mode
ClickSave ==
    /\ variantRow.editing
    /\ ~variantRow.saving
    /\ save
    /\ UNCHANGED <<server, createPage>>

\* handleKeyDown on the price and inventory inputs, rendered in edit mode:
\* Enter calls save(), Escape calls cancel()
handleKeyDown(key) ==
    /\ variantRow.editing
    /\ IF key = "Enter" THEN save ELSE cancel
    /\ UNCHANGED <<server, createPage>>

\* save() from the await on: onUpdated and setEditing(false) on success,
\* setError in the catch block, setSaving(false) in the finally block
updateVariantSettles(i, outcome) ==
    /\ i \in 1..Len(variantRow.requests)
    /\ variantRow' = [variantRow EXCEPT
                         !.requests = SubSeq(@, 1, i - 1) \o SubSeq(@, i + 1, Len(@)),
                         !.variant = IF outcome = "ok" THEN variantRow.requests[i] ELSE @,
                         !.editing = IF outcome = "ok" THEN FALSE ELSE @,
                         !.error = IF outcome = "ok" THEN @ ELSE Message(outcome),
                         !.saving = FALSE]
    /\ UNCHANGED <<server, createPage>>

NextVariantRow ==
    \/ startEditing
    \/ ClickCancel
    \/ \E value \in {"7", "-1"} : setPrice(value)
    \/ \E value \in {"9", ""} : setInventory(value)
    \/ ClickSave
    \/ \E key \in {"Enter", "Escape"} : handleKeyDown(key)
    \/ \E i \in 1..MaxInFlight, outcome \in Outcomes : updateVariantSettles(i, outcome)

SpecVariantRow == Init /\ [][NextVariantRow]_vars

(***************************************************************************)
(* Properties.                                                             *)
(***************************************************************************)
IsPost(x) == x.op = "POST /products"

StoredSkus(vs) == {v.sku : v \in vs}

\* the request names two variants whose SKUs are equal after trimming
HasRepeatedSku(body) ==
    /\ body.variants.isArray
    /\ \E i, j \in 1..Len(body.variants.items) :
          /\ i # j
          /\ body.variants.items[i].sku.t = "string"
          /\ body.variants.items[j].sku.t = "string"
          /\ Trim(body.variants.items[i].sku.s) = Trim(body.variants.items[j].sku.s)

\* the request names a variant whose trimmed SKU is stored
HasStoredSku(body, vs) ==
    /\ body.variants.isArray
    /\ \E i \in 1..Len(body.variants.items) :
          /\ body.variants.items[i].sku.t = "string"
          /\ Trim(body.variants.items[i].sku.s) \in StoredSkus(vs)

\* the request would be accepted by a store that holds no variant
OtherwiseValid(body) == ValidateCreate(body, {}).status = 200

\* C1: no two stored variants, of the same or of different products, of
\* deleted or of live products, have the same SKU.
C1_SkuUnique == \A v, w \in variants : v.id # w.id => v.sku # w.sku

\* two products, one of them soft-deleted, hold variants, and a SKU change
\* was just accepted
C1_Witness ==
    /\ \E v, w \in variants : v.product_id # w.product_id
    /\ \E i \in 1..Len(products) : products[i].deleted_at # Null
    /\ last.op = "PUT /variants/:id"
    /\ last.res.status = 200
    /\ last.req.sku.t = "string"

\* C2: every stored product has at least one variant.
C2_ProductHasVariant == \A i \in 1..Len(products) : VariantsOf(variants, i) # {}

\* the guard has just refused to delete the only variant of a product
C2_Witness ==
    /\ last.op = "DELETE /variants/:id"
    /\ last.res.status = 400
    /\ last.res.error = "cannot delete last variant"
    /\ Len(products) = MaxProducts

\* C3: a create request whose atomic unit throws leaves the products table
\* and the variants table exactly as they were before the request.
C3_CreateAllOrNothing ==
    [][(IsPost(last') /\ last'.res.status = 500)
          => (products' = products /\ variants' = variants)]_vars

\* the insert of the second variant threw, after the product row and the
\* first variant row had been written
C3_Witness ==
    /\ IsPost(last)
    /\ last.res.status = 500
    /\ last.fault = 3
    /\ variants # {}

\* C6: deleting the only variant of a product is refused as invalid input
\* and removes nothing; deleting one of two or more variants of a product
\* succeeds and removes exactly that row.
C6_LastVariantLaw ==
    [][(last'.op = "DELETE /variants/:id" /\ VariantById(variants, last'.id) # {})
          => LET v == CHOOSE x \in VariantById(variants, last'.id) : TRUE
             IN  IF Cardinality(VariantsOf(variants, v.product_id)) = 1
                 THEN /\ last'.res.status = 400
                      /\ last'.res.error = "cannot delete last variant"
                      /\ variants' = variants
                 ELSE /\ last'.res.status = 200
                      /\ variants' = variants \ {v}
                      /\ products' = products]_vars

\* one of two variants of a product has just been deleted
C6_Witness ==
    /\ last.op = "DELETE /variants/:id"
    /\ last.res.status = 200
    /\ variants # {}
    /\ VariantById(variants, last.id) = {}

\* C7 as claimed: a create request with two variants of the same trimmed
\* SKU is answered 400 and writes no row.
C7_RepeatedSkuIsInvalidInput ==
    [][(IsPost(last') /\ HasRepeatedSku(last'.req))
          => (last'.res.status = 400 /\ products' = products /\ variants' = variants)]_vars

\* C8: an otherwise valid create request naming a stored SKU is answered
\* 409 and leaves the products and variants tables as they were.
C8_StoredSkuIsConflict ==
    [][(IsPost(last') /\ OtherwiseValid(last'.req) /\ HasStoredSku(last'.req, variants))
          => (/\ last'.res.status = 409
              /\ last'.res.error = "sku already exists"
              /\ products' = products
              /\ variants' = variants)]_vars

\* a two-variant request whose second SKU, sent padded, is stored was refused
C8_Witness ==
    /\ IsPost(last)
    /\ last.res.status = 409
    /\ last.res.index = 1
    /\ OtherwiseValid(last.req)
    /\ last.req.variants.items[2].sku.s # Trim(last.req.variants.items[2].sku.s)

\* C9 as claimed: a create request with both a repeated SKU and a stored
\* SKU is answered 400 (invalid input), not 409 (conflict).
C9_RepeatedBeforeStored ==
    [][(IsPost(last') /\ HasRepeatedSku(last'.req) /\ HasStoredSku(last'.req, variants))
          => last'.res.status = 400]_vars

IsList(x) == x.op = "GET /products"

\* the ids of the rows of a listing response
ListedIds(x) == {x.res.body[k].id : k \in 1..Len(x.res.body)}

IsDeleted(ps, id) == id \in 1..Len(ps) /\ ps[id].deleted_at # Null

\* C4: a successful delete-product sets deleted_at; from then on deleted_at
\* stays set, no listing (whatever its filters) shows the product, and
\* get-product still answers 200 with deleted_at set.
C4_SoftDeleteLaw ==
    [][/\ (last'.op = "DELETE /products/:id" /\ last'.res.status = 200)
            => IsDeleted(products', last'.id)
       /\ \A id \in 1..Len(products) : IsDeleted(products, id) => IsDeleted(products', id)
       /\ IsList(last') => \A id \in ListedIds(last') : ~IsDeleted(products', id)
       /\ (last'.op = "GET /products/:id" /\ IsDeleted(products', last'.id))
            => /\ last'.res.status = 200
               /\ last'.res.body.product.row.id = last'.id
               /\ last'.res.body.product.row.deleted_at # Null]_vars

\* a listing with both filters set has just left out a deleted product that
\* passes both filters, and shown a live one
C4_Witness ==
    /\ IsList(last)
    /\ Truthy(last.req.search)
    /\ Truthy(last.req.category_id)
    /\ ListedIds(last) # {}
    /\ \E id \in 1..Len(products) :
          /\ IsDeleted(products, id)
          /\ ListConditionFiltersOnly(products[id], last.req)

\* a filter the caller supplied (C5 as claimed): the parameter is in the query
Supplied(x) == x.t # "undefined"

\* a filter the handler applies (C5 as amended): the parameter is in the
\* query and is not the empty string
NonEmpty(x) == x.t = "string" /\ x.s # <<>>

\* the products a listing is to show, for a reading of "supplied"
Expected(ps, query, searchGiven, categoryGiven) ==
    {id \in 1..Len(ps) :
        /\ ps[id].deleted_at = Null
        /\ searchGiven =>
              (ColumnLike(ps[id].name, query.search)
                  \/ ColumnLike(ps[id].description, query.search))
        /\ categoryGiven => ps[id].category_id = ToNumber(query.category_id)}

\* C5 as claimed: a listing shows each product once, and exactly the live
\* products that pass every filter present in the query, empty values
\* included.
C5_ListExactlyAsClaimed ==
    IsList(last) =>
        /\ ListedIds(last) = Expected(products, last.req, Supplied(last.req.search),
                                      Supplied(last.req.category_id))
        /\ Len(last.res.body) = Cardinality(ListedIds(last))

\* C5 amended: a listing shows each product once, and exactly the live
\* products that pass every filter whose value is not empty; an empty
\* search or category_id counts as absent.
C5_ListExactly ==
    IsList(last) =>
        /\ ListedIds(last) = Expected(products, last.req, NonEmpty(last.req.search),
                                      NonEmpty(last.req.category_id))
        /\ Len(last.res.body) = Cardinality(ListedIds(last))

\* a listing with both filters set has shown one product, matched by its
\* description alone, and left out a live one that passes the search but is
\* in another category
C5_Witness ==
    /\ IsList(last)
    /\ NonEmpty(last.req.search)
    /\ NonEmpty(last.req.category_id)
    /\ \E id \in ListedIds(last) : ~ColumnLike(products[id].name, last.req.search)
    /\ \E id \in 1..Len(products) :
          /\ id \notin ListedIds(last)
          /\ products[id].deleted_at = Null
          /\ ColumnLike(products[id].name, last.req.search)

\* C10: a successful update-variant sets each field present in the request
\* to the supplied value (strings trimmed), keeps each absent field, the id,
\* the product and the creation time, and touches no other row.
C10_PartialUpdate ==
    [][(last'.op = "PUT /variants/:id" /\ last'.res.status = 200)
          => /\ VariantById(variants, last'.id) # {}
             /\ VariantById(variants', last'.id) # {}
             /\ LET body == last'.req
                    old == CHOOSE v \in VariantById(variants, last'.id) : TRUE
                    new == CHOOSE v \in VariantById(variants', last'.id) : TRUE
                IN  /\ new.name = IF body.name.t = "undefined" THEN old.name
                                  ELSE Trim(body.name.s)
                    /\ new.sku = IF body.sku.t = "undefined" THEN old.sku
                                 ELSE Trim(body.sku.s)
                    /\ new.price_cents = IF body.price_cents.t = "undefined"
                                         THEN old.price_cents ELSE body.price_cents.n
                    /\ new.inventory_count = IF body.inventory_count.t = "undefined"
                                             THEN old.inventory_count
                                             ELSE body.inventory_count.n
                    /\ new.id = old.id
                    /\ new.product_id = old.product_id
                    /\ new.created_at = old.created_at
                    /\ variants' \ {new} = variants \ {old}
                    /\ products' = products
                    /\ last'.res.body = new]_vars

\* an update that names price_cents alone has changed the price of a variant
\* whose inventory_count, 3, is still 3
C10_Witness ==
    /\ last.op = "PUT /variants/:id"
    /\ last.res.status = 200
    /\ last.req = VariantBody(Undefined, Undefined, Num(7), Undefined)
    /\ last.res.body.price_cents = 7
    /\ last.res.body.inventory_count = 3
    /\ Cardinality(variants) >= 2

IsPutVariant(x) == x.op = "PUT /variants/:id"

\* the fields of an update-variant request other than sku pass its checks
OtherFieldsValid(body) ==
    /\ ~InvalidSuppliedString(body.name)
    /\ ~InvalidSuppliedAmount(body.price_cents)
    /\ ~InvalidSuppliedAmount(body.inventory_count)

\* C11: an update of an existing variant whose sku, trimmed, is the
\* variant's own SKU succeeds; it is not answered 409.
C11_SelfSku ==
    [][(/\ IsPutVariant(last')
        /\ VariantById(variants, last'.id) # {}
        /\ last'.req.sku.t = "string"
        /\ OtherFieldsValid(last'.req)
        /\ Trim(last'.req.sku.s) = (CHOOSE v \in VariantById(variants, last'.id) : TRUE).sku)
          => (/\ last'.res.status = 200
              /\ last'.res.body.sku = Trim(last'.req.sku.s))]_vars

\* variant 1, created with SKU A next to variant 2 with SKU B and never
\* offered another SKU, has been sent its own SKU, padded, and took it
C11_Witness ==
    /\ IsPutVariant(last)
    /\ last.id = 1
    /\ last.res.status = 200
    /\ last.req.sku = Str(<<"A", " ">>)
    /\ \E v \in variants : v.id = 1 /\ v.sku = <<"A">> /\ v.product_id = 1
    /\ \E v \in variants : v.id = 2 /\ v.sku = <<"B">> /\ v.product_id = 1

\* C12: an update of an existing variant whose sku, trimmed, is not its own
\* SKU and is the SKU of another stored variant is answered 409 and leaves
\* the variants table as it was.
C12_OtherSkuIsConflict ==
    [][(/\ IsPutVariant(last')
        /\ VariantById(variants, last'.id) # {}
        /\ last'.req.sku.t = "string"
        /\ OtherFieldsValid(last'.req)
        /\ LET own == CHOOSE v \in VariantById(variants, last'.id) : TRUE
           IN  /\ Trim(last'.req.sku.s) # own.sku
               /\ \E w \in variants : w.id # own.id /\ w.sku = Trim(last'.req.sku.s))
          => (/\ last'.res.status = 409
              /\ last'.res.error = "sku already exists"
              /\ variants' = variants
              /\ products' = products)]_vars

\* a variant was refused the SKU, sent padded, of a variant of another product
C12_Witness ==
    /\ IsPutVariant(last)
    /\ last.res.status = 409
    /\ last.req.sku.s # Trim(last.req.sku.s)
    /\ \E v, w \in variants :
          /\ v.id = last.id
          /\ w.sku = Trim(last.req.sku.s)
          /\ w.product_id # v.product_id

\* C13: an update of an existing variant that supplies none of name, sku,
\* price_cents and inventory_count is answered 400 "no fields to update"
\* and changes no row, updated_at included.
C13_NoFields ==
    [][(/\ IsPutVariant(last')
        /\ VariantById(variants, last'.id) # {}
        /\ UpdateColumns(last'.req) = <<>>)
          => (/\ last'.res.status = 400
              /\ last'.res.error = "no fields to update"
              /\ variants' = variants
              /\ products' = products)]_vars

\* an update without fields was refused at a time later than the variant's
\* updated_at, which it left alone
C13_Witness ==
    /\ IsPutVariant(last)
    /\ last.res.status = 400
    /\ last.res.error = "no fields to update"
    /\ \E v \in variants : v.id = last.id /\ v.updated_at < now

IsPutProduct(x) == x.op = "PUT /products/:id"

ProductFields == {"name", "description", "category_id", "status"}

\* the field is in the request (C14 as claimed)
Present(x) == x.t # "undefined"

\* the field is in the request with a value other than null (C14 as amended)
PresentNotNull(x) == ~IsNullish(x)

\* a successful update-product: each field that is given has the value of
\* the request, every other one its prior value; id, deleted_at, created_at
\* and the variants are as before
Merged(old, new, body, given) ==
    /\ \A f \in ProductFields : new[f] = IF given[f] THEN body[f] ELSE old[f]
    /\ new.id = old.id
    /\ new.deleted_at = old.deleted_at
    /\ new.created_at = old.created_at

\* C14 as claimed: after a successful update-product every field present in
\* the request has the supplied value, every absent one its prior value, and
\* deleted_at and the variants are unchanged.
C14_MergeAsClaimed ==
    [][(IsPutProduct(last') /\ last'.res.status = 200)
          => /\ Merged(products[last'.id], products'[last'.id], last'.req,
                       [f \in ProductFields |-> Present(last'.req[f])])
             /\ variants' = variants]_vars

\* C14 amended: after a successful update-product every field present in
\* the request with a value other than null has the supplied value, every
\* field that is absent or null keeps its prior value, no other product row
\* changes, and deleted_at and the variants are unchanged.
C14_Merge ==
    [][(IsPutProduct(last') /\ last'.res.status = 200)
          => /\ Merged(products[last'.id], products'[last'.id], last'.req,
                       [f \in ProductFields |-> PresentNotNull(last'.req[f])])
             /\ \A i \in 1..Len(products) : i # last'.id => products'[i] = products[i]
             /\ Len(products') = Len(products)
             /\ last'.res.body.row = products'[last'.id]
             /\ variants' = variants]_vars

\* a soft-deleted product was sent a new name with description, category_id
\* and status null: it has the name, and still its description, category
\* and status
C14_Witness ==
    /\ IsPutProduct(last)
    /\ last.res.status = 200
    /\ last.req = ProductBody(Str(<<"Q">>), Null, Null, Null)
    /\ products[1].name = Str(<<"Q">>)
    /\ products[1].description = Str(<<"d">>)
    /\ products[1].category_id = Num(1)
    /\ products[1].status = Draft
    /\ products[1].deleted_at # Null

\* every product is uncategorised or in a category of the categories table
CategoryResolves(p) == IsNullish(p.category_id) \/ CategoryById(ToNumber(p.category_id)) # {}

\* C15 as claimed: every stored product's category_id is absent or the id
\* of a stored category, and a create or an update whose category_id is not
\* null and matches no category is refused and writes nothing.
C15_CategoryGuard ==
    /\ [](\A i \in 1..Len(products) : CategoryResolves(products[i]))
    /\ [][((IsPost(last') \/ IsPutProduct(last'))
              /\ (IsPutProduct(last') => last'.id \in 1..Len(products))
              /\ DanglingCategory(last'.req))
            => (/\ last'.res.status >= 400
                /\ products' = products
                /\ variants' = variants)]_vars

\* C16: a create request whose category_id matches no category is answered
\* 400 and writes no row; an otherwise valid create request whose
\* category_id is null is answered 201, and the product stored and the
\* product returned have category_id null and category_name null.
C16_CreateCategory ==
    [][IsPost(last')
          => /\ DanglingCategory(last'.req)
                  => (/\ last'.res.status = 400
                      /\ products' = products
                      /\ variants' = variants)
             /\ (/\ DanglingCategory(last'.req)
                 /\ OtherwiseValid([last'.req EXCEPT !.category_id = Null]))
                  => last'.res.error = "category not found"
             /\ (/\ last'.req.category_id = Null
                 /\ OtherwiseValid(last'.req)
                 /\ ~HasStoredSku(last'.req, variants))
                  => (/\ last'.res.status = 201
                      /\ Len(products') = Len(products) + 1
                      /\ products'[Len(products')].category_id = Null
                      /\ last'.res.body.product.row = products'[Len(products')]
                      /\ last'.res.body.product.category_name = Null)]_vars

\* a request naming category 9 has just been refused by a store that holds
\* a product created with category_id null
C16_Witness ==
    /\ IsPost(last)
    /\ last.res.status = 400
    /\ last.res.error = "category not found"
    /\ last.req.category_id = Num(9)
    /\ \E i \in 1..Len(products) :
          products[i].category_id = Null /\ products[i].name = Str(<<"N">>)

IsGetProduct(x) == x.op = "GET /products/:id"

\* C18: a get-product that directly follows a successful create of that
\* product returns what the create returned (the product's fields, its
\* category_name and the ordered variant list), and a get-product that
\* directly follows a get-product of the same product returns what that
\* one returned.
C18_IdempotentRead ==
    [][/\ (/\ IsPost(last)
           /\ last.res.status = 201
           /\ IsGetProduct(last')
           /\ last'.id = last.res.body.product.row.id)
            => (last'.res.status = 200 /\ last'.res.body = last.res.body)
       /\ (IsGetProduct(last) /\ IsGetProduct(last') /\ last'.id = last.id)
            => last'.res = last.res]_vars

\* get-product has returned a product in category 1 with its two variants,
\* untouched since its creation
C18_Witness ==
    /\ IsGetProduct(last)
    /\ last.res.status = 200
    /\ Len(last.res.body.variants) = 2
    /\ last.res.body.product.category_name = Str(<<"D", "r", "y">>)
    /\ last.res.body.product.row = products[last.id]
    /\ products[last.id].name = Str(<<"P">>)
    /\ products[last.id].status = Draft
    /\ products[last.id].deleted_at = Null

\* C19: no request removes a product row, and get-product of a product
\* that was created answers 200 with that product, whatever updates and
\* deletes of products and variants came in between.
C19_ProductRowsStay ==
    [][/\ Len(products') >= Len(products)
       /\ \A id \in 1..Len(products) : products'[id].id = id
       /\ (IsGetProduct(last') /\ last'.id \in 1..Len(products'))
            => (/\ last'.res.status = 200
                /\ last'.res.body.product.row.id = last'.id)]_vars

\* get-product has returned product 1 after it was renamed and soft-deleted,
\* one of its variants was given a new SKU and variant 1 was deleted
C19_Witness ==
    /\ IsGetProduct(last)
    /\ last.id = 1
    /\ last.res.status = 200
    /\ products[1].name = Str(<<"Q">>)
    /\ products[1].deleted_at # Null
    /\ VariantById(variants, 1) = {}
    /\ \E v \in VariantsOf(variants, 1) : v.sku = <<"C">>

\* C20 as claimed: when create requests with a common SKU have all passed
\* their checks, the rows of at most one of them are stored, and the one
\* whose insert the store refuses is answered 409, not 500, and leaves no
\* row.
C20_RaceLoserIsConflict ==
    /\ [](\A v, w \in variants : v.id # w.id => v.sku # w.sku)
    /\ [][(IsPost(last') /\ last'.fault # 0)
            => (/\ last'.res.status = 409
                /\ products' = products
                /\ variants' = variants)]_vars

\* C21 as claimed: with the statements of the requests interleaved (only
\* the insert unit of create atomic) every product has at least one
\* variant, so two delete-variant requests on the two variants of one
\* product do not both succeed.
C21_InterleavedDeletesKeepVariant ==
    \A i \in 1..Len(products) : \E v \in variants : v.product_id = i

\* the update-variant request of a process has run its UPDATE
Written(r) == r.busy /\ r.op = "PUT /variants/:id" /\ r.stage = "respond"

\* the columns two requests name are disjoint
DisjointColumns(b, c) ==
    \A i \in 1..Len(UpdateColumns(b)), j \in 1..Len(UpdateColumns(c)) :
        UpdateColumns(b)[i] # UpdateColumns(c)[j]

\* the row has the value the request supplies for each column it names
HoldsSupplied(v, body) ==
    \A i \in 1..Len(UpdateColumns(body)) :
        v[UpdateColumns(body)[i]] = ColumnParam(body, UpdateColumns(body)[i])

\* C22: when two update-variant requests on one variant that name disjoint
\* sets of fields are in flight together and both have run their UPDATE,
\* in whatever order their statements came, the row holds the values of
\* both.
C22_DisjointUpdatesBothLand ==
    \A w1, w2 \in Workers :
        (/\ w1 # w2
         /\ Written(pending[w1])
         /\ Written(pending[w2])
         /\ pending[w1].id = pending[w2].id
         /\ DisjointColumns(pending[w1].body, pending[w2].body))
            => \A v \in VariantById(variants, pending[w1].id) :
                   HoldsSupplied(v, pending[w1].body) /\ HoldsSupplied(v, pending[w2].body)

\* a request that names price_cents alone and one that names
\* inventory_count alone, both on variant 1, have both run their UPDATE
\* before either has answered, and the row has price 7 and inventory 9
C22_Witness ==
    /\ Written(pending["w1"])
    /\ Written(pending["w2"])
    /\ pending["w1"].body = VariantBody(Undefined, Undefined, Num(7), Undefined)
    /\ pending["w2"].body = VariantBody(Undefined, Undefined, Undefined, Num(9))
    /\ \E v \in variants : v.id = 1 /\ v.price_cents = 7 /\ v.inventory_count = 9

\* the requests that write
Writes ==
    {"POST /products", "PUT /products/:id", "DELETE /products/:id", "PUT /variants/:id",
     "DELETE /variants/:id"}

\* C23: a create-product, update-product, delete-product, update-variant or
\* delete-variant request answered 400, 404 or 409 leaves the products and
\* variants tables as they were (no handler writes the categories table).
C23_NoPartialWrites ==
    [][(last'.op \in Writes /\ last'.res.status \in {400, 404, 409})
          => (products' = products /\ variants' = variants /\ variantSeq' = variantSeq)]_vars

\* a create request was refused at its second variant, after its first had
\* passed every check, by a store that holds rows
C23_Witness ==
    /\ IsPost(last)
    /\ last.res.status \in {400, 409}
    /\ last.res.index = 1
    /\ OtherwiseValid([last.req EXCEPT !.variants.items = <<@[1]>>])
    /\ products # <<>>
    /\ variants # {}

\* a string that is not empty and has no leading or trailing white space
Trimmed(s) == s # <<>> /\ Trim(s) = s

\* C24 as claimed: every stored product has a status among active, draft
\* and archived, and a name that is a non-empty string equal to its own
\* trimmed form.
C24_ProductWellFormed ==
    \A i \in 1..Len(products) :
        /\ products[i].status \in validStatuses
        /\ products[i].name.t = "string"
        /\ Trimmed(products[i].name.s)

\* C25: every stored variant has price_cents >= 0, inventory_count >= 0, and
\* a sku and a name that are non-empty and equal to their own trimmed form,
\* whatever field values the create and update-variant requests carry.
C25_VariantWellFormed ==
    \A v \in variants :
        /\ v.price_cents >= 0
        /\ v.inventory_count >= 0
        /\ Trimmed(v.sku)
        /\ Trimmed(v.name)

\* a padded name has been stored trimmed by an update, on a variant created
\* from a padded sku, after a negative price was offered and refused
C25_Witness ==
    /\ IsPutVariant(last)
    /\ last.res.status = 400
    /\ last.req.price_cents.t = "number"
    /\ last.req.price_cents.n < 0
    /\ \E v \in variants :
           /\ v.id = last.id
           /\ v.sku = <<"A">>
           /\ v.name = <<"m">>
           /\ v.price_cents = 0

\* a field that is absent or null
Absent(x) == x.t \in {"undefined", "null"}

\* the amount a create stores for a field: 0 when absent, else the number
StoredAmount(x) == IF Absent(x) THEN 0 ELSE x.n

\* an amount a create must take: absent, or a number from 0 up
AmountAcceptable(x) == Absent(x) \/ (x.t = "number" /\ x.n >= 0)

\* a string field with something other than white space in it
Filled(x) == x.t = "string" /\ Trim(x.s) # <<>>

\* a create payload the specification accepts, the SKUs in the store aside
Acceptable(body) ==
    /\ Filled(body.name)
    /\ Absent(body.status) \/ body.status \in validStatuses
    /\ Absent(body.category_id) \/ CategoryById(ToNumber(body.category_id)) # {}
    /\ body.variants.isArray
    /\ body.variants.items # <<>>
    /\ \A i \in 1..Len(body.variants.items) :
           /\ Filled(body.variants.items[i].sku)
           /\ Filled(body.variants.items[i].name)
           /\ AmountAcceptable(body.variants.items[i].price_cents)
           /\ AmountAcceptable(body.variants.items[i].inventory_count)
    /\ \A i, j \in 1..Len(body.variants.items) :
           Trim(body.variants.items[i].sku.s) = Trim(body.variants.items[j].sku.s) => i = j

\* C27: a create whose amounts are absent or 0 and whose status is absent is
\* accepted (its SKUs being free), and stores price_cents 0 for an absent
\* price, inventory_count 0 for an absent inventory, the supplied number
\* otherwise (0 included), and status active for an absent status.
C27_CreateDefaults ==
    (IsPost(last) /\ Acceptable(last.req)) =>
        /\ last.res.status \in {201, 409}
        /\ last.res.status = 201 =>
              /\ last.res.body.product.row.status =
                    (IF Absent(last.req.status) THEN Active ELSE last.req.status)
              /\ last.res.body.product.row.id \in 1..Len(products)
              /\ products[last.res.body.product.row.id].status = last.res.body.product.row.status
              /\ \A i \in 1..Len(last.req.variants.items) :
                    LET item == last.req.variants.items[i]
                    IN  \E v \in variants :
                           /\ v.product_id = last.res.body.product.row.id
                           /\ v.sku = Trim(item.sku.s)
                           /\ v.price_cents = StoredAmount(item.price_cents)
                           /\ v.inventory_count = StoredAmount(item.inventory_count)
                           /\ \E k \in 1..Len(last.res.body.variants) :
                                  last.res.body.variants[k] = v

\* a create with price and inventory 0 has just been stored, next to a
\* product created without status, price and inventory
C27_Witness ==
    /\ IsPost(last)
    /\ last.res.status = 201
    /\ last.req.variants.items[1].price_cents = Num(0)
    /\ last.req.variants.items[1].inventory_count = Num(0)
    /\ \E v \in variants : v.sku = <<"B">> /\ v.price_cents = 0 /\ v.inventory_count = 0
    /\ \E v \in variants :
           /\ v.sku = <<"A">>
           /\ v.price_cents = 0
           /\ v.inventory_count = 0
           /\ products[v.product_id].status = Active

\* an update-product request whose category and status, where given, are a
\* stored category and an enumerated status
ResolvableUpdate(body) ==
    /\ IsNullish(body.category_id) \/ CategoryById(ToNumber(body.category_id)) # {}
    /\ IsNullish(body.status) \/ body.status \in validStatuses

\* C26: for a product whose deleted_at is set, get-product answers 200 with
\* the row, update-product never answers 404 and answers 200 for a request
\* whose category and status resolve, the update is applied to the row with
\* deleted_at left set, and no listing shows the product.
C26_DeletedStaysReachable ==
    [][/\ (IsGetProduct(last') /\ IsDeleted(products, last'.id))
            => /\ last'.res.status = 200
               /\ last'.res.body.product.row = products[last'.id]
       /\ (IsPutProduct(last') /\ IsDeleted(products, last'.id))
            => /\ last'.res.status # 404
               /\ ResolvableUpdate(last'.req) => last'.res.status = 200
               /\ last'.res.status = 200
                    => /\ Merged(products[last'.id], products'[last'.id], last'.req,
                                 [f \in ProductFields |-> PresentNotNull(last'.req[f])])
                       /\ last'.res.body.row = products'[last'.id]
                       /\ IsDeleted(products', last'.id)
       /\ IsList(last') => \A id \in ListedIds(last') : ~IsDeleted(products', id)]_vars

\* a deleted product has just been sent the status archived alone, answered
\* 200, and has it
C26_Witness ==
    /\ IsPutProduct(last)
    /\ last.res.status = 200
    /\ last.req = ProductBody(Undefined, Undefined, Undefined, Archived)
    /\ IsDeleted(products, last.id)
    /\ products[last.id].status = Archived
    /\ last.res.body.row.deleted_at # Null

\* C28 as claimed: when the storage engine fails during any of the eight
\* operations, the handler itself answers with an Internal failure (500)
\* and the exception does not leave it.
C28_FailuresAreTyped ==
    last.fault # 0 => (last.res # Escaped /\ last.res.status = 500)

\* the inventory of the variants of a product with ids up to n, added up
RECURSIVE InventoryUpTo(_, _, _)
InventoryUpTo(vs, productId, n) ==
    IF n = 0 THEN 0
    ELSE InventoryUpTo(vs, productId, n - 1)
         + (IF \E v \in vs : v.id = n /\ v.product_id = productId
            THEN (CHOOSE v \in vs : v.id = n /\ v.product_id = productId).inventory_count
            ELSE 0)

\* a row of a listing carries the aggregates of the variants vs
AggregatesOf(row, vs) ==
    LET mine == {v \in vs : v.product_id = row.id}
    IN  /\ row.variant_count = Cardinality(mine)
        /\ row.total_inventory \in Int
        /\ row.total_inventory = InventoryUpTo(vs, row.id, variantSeq)
        /\ IF mine = {}
           THEN row.min_price_cents = Null /\ row.max_price_cents = Null
           ELSE /\ \E v \in mine :
                      /\ row.min_price_cents = Num(v.price_cents)
                      /\ \A u \in mine : v.price_cents <= u.price_cents
                /\ \E v \in mine :
                      /\ row.max_price_cents = Num(v.price_cents)
                      /\ \A u \in mine : v.price_cents >= u.price_cents

\* C29: every row of a listing reports variant_count, min_price_cents,
\* max_price_cents and total_inventory over the variants the product has
\* when the listing runs, every earlier update-variant and delete-variant
\* included; a product without variants has both prices null and
\* total_inventory 0.
C29_ListAggregates ==
    [][(IsList(last') /\ last' # last /\ variants' = variants /\ pending' = pending)
          => \A k \in 1..Len(last'.res.body) : AggregatesOf(last'.res.body[k], variants')]_vars

\* a listing shows product 1 with one variant left after a delete, at the
\* price and the inventory two updates gave it
C29_Witness ==
    /\ IsList(last)
    /\ Len(last.res.body) = 1
    /\ last.res.body[1].variant_count = 1
    /\ last.res.body[1].min_price_cents = Num(7)
    /\ last.res.body[1].max_price_cents = Num(7)
    /\ last.res.body[1].total_inventory = 9
    /\ \E v \in variants : v.id = 1 /\ v.price_cents = 7 /\ v.inventory_count = 9
    /\ Cardinality(variants) = 1

IsDeleteProduct(x) == x.op = "DELETE /products/:id"

\* C30: a successful update-variant or update-product leaves the row with
\* updated_at equal to the time of the request, whichever fields it names
\* and whether or not their values differ from the stored ones, and a
\* successful delete-product leaves the row with deleted_at and updated_at
\* equal to the time of the request.
C30_TimestampsRefreshed ==
    [][now' = now =>
          /\ (IsPutVariant(last') /\ last'.res.status = 200)
                => /\ \E v \in variants' : v.id = last'.id /\ v.updated_at = now
                   /\ last'.res.body.updated_at = now
          /\ (IsPutProduct(last') /\ last'.res.status = 200)
                => /\ products'[last'.id].updated_at = now
                   /\ last'.res.body.row.updated_at = now
          /\ (IsDeleteProduct(last') /\ last'.res.status = 200)
                => /\ products'[last'.id].deleted_at = Num(now)
                   /\ products'[last'.id].updated_at = now]_vars

\* a variant created with the name n at time 0 has been sent the name n at
\* a later time: its updated_at is that time
C30_Witness ==
    /\ IsPutVariant(last)
    /\ last.res.status = 200
    /\ last.req = VariantBody(Str(<<"n">>), Undefined, Undefined, Undefined)
    /\ now > 0
    /\ \E v \in variants :
           /\ v.id = last.id
           /\ v.name = <<"n">>
           /\ v.created_at = 0
           /\ v.updated_at = now

\* the first rule, in the order sku, name, price, inventory, in-batch
\* duplicate, existing SKU, that the variant at position i breaks ("none"
\* when it breaks none), given the SKUs vs holds
BrokenRule(items, i, vs) ==
    LET v == items[i]
    IN  IF ~Filled(v.sku) THEN "variant missing sku"
        ELSE IF ~Filled(v.name) THEN "variant missing name"
        ELSE IF ~AmountAcceptable(v.price_cents) THEN "invalid price"
        ELSE IF ~AmountAcceptable(v.inventory_count) THEN "invalid inventory count"
        ELSE IF \E j \in 1..(i - 1) : Filled(items[j].sku) /\ Trim(items[j].sku.s) = Trim(v.sku.s)
             THEN "duplicate sku within request"
        ELSE IF \E s \in vs : s.sku = Trim(v.sku.s) THEN "sku already exists"
        ELSE "none"

\* the one failure a create is to report: the product-level rules in their
\* order, then the first broken rule of the lowest variant that breaks one
FirstViolation(body, vs) ==
    IF ~Filled(body.name) THEN Failure(400, "product name required", 0)
    ELSE IF ~body.variants.isArray \/ body.variants.items = <<>>
         THEN Failure(400, "at least one variant required", 0)
    ELSE IF ~(Absent(body.status) \/ body.status \in validStatuses)
         THEN Failure(400, "invalid status", 0)
    ELSE IF ~(Absent(body.category_id) \/ CategoryById(ToNumber(body.category_id)) # {})
         THEN Failure(400, "category not found", 0)
    ELSE LET items == body.variants.items
             bad == {i \in 1..Len(items) : BrokenRule(items, i, vs) # "none"}
         IN  IF bad = {} THEN Success(200, <<>>)
             ELSE LET low == CHOOSE i \in bad : \A j \in bad : i <= j
                      rule == BrokenRule(items, low, vs)
                  IN  Failure(IF rule = "sku already exists" THEN 409 ELSE 400, rule, low - 1)

C32_NullIsAbsent ==
    [][(IsPutProduct(last') /\ last'.res.status = 200)
          => /\ \A f \in {"description", "category_id"} :
                   /\ last'.req[f] = Null => products'[last'.id][f] = products[last'.id][f]
                   /\ products[last'.id][f] # Null => products'[last'.id][f] # Null
             /\ last'.res.body.row = products'[last'.id]]_vars

\* an update with category_id null alone was answered 200 and the product
\* is still in a category, whose name the response carries
C32_Witness ==
    /\ IsPutProduct(last)
    /\ last.res.status = 200
    /\ last.req = ProductBody(Undefined, Undefined, Null, Undefined)
    /\ products[last.id].category_id \in {Num(1), Num(2)}
    /\ last.res.body.category_name # Null

\* C33: once a product's deleted_at is set it stays set under every
\* request, a delete-product of a product already deleted is answered with
\* the success marker again, and no listing shows the product.
C33_DeletionIsPermanent ==
    [][/\ \A id \in 1..Len(products) :
             IsDeleted(products, id) => (id \in 1..Len(products') /\ IsDeleted(products', id))
       /\ (IsDeleteProduct(last') /\ IsDeleted(products, last'.id))
             => last'.res = Success(200, [success |-> TRUE])
       /\ IsList(last')
             => \A k \in 1..Len(last'.res.body) : ~IsDeleted(products', last'.res.body[k].id)]_vars

\* a product deleted at time 0 and updated at a later time is missing from
\* the listing just answered
C33_Witness ==
    /\ IsList(last)
    /\ last.res.body = <<>>
    /\ Len(products) = 1
    /\ products[1].deleted_at = Num(0)
    /\ products[1].updated_at > 0

\* the SKU is held by a variant, other than the variant except, of a
\* product whose deleted_at is set
HeldByDeleted(sku, except) ==
    \E v \in variants : v.id # except /\ v.sku = sku /\ IsDeleted(products, v.product_id)

\* C34: a create-product that is otherwise acceptable, and an update-variant
\* whose other fields are valid, is answered 409 when it uses a SKU held by
\* a variant of a soft-deleted product.
C34_DeletedSkusReserved ==
    /\ (/\ IsPost(last)
        /\ Acceptable(last.req)
        /\ \E i \in 1..Len(last.req.variants.items) :
               HeldByDeleted(Trim(last.req.variants.items[i].sku.s), 0))
          => last.res.status = 409
    /\ (/\ IsPutVariant(last)
        /\ VariantById(variants, last.id) # {}
        /\ Filled(last.req.sku)
        /\ OtherFieldsValid(last.req)
        /\ HeldByDeleted(Trim(last.req.sku.s), last.id))
          => last.res.status = 409

\* a create has just been refused with 409 for a SKU that a variant of the
\* deleted product 1 holds
C34_Witness ==
    /\ IsPost(last)
    /\ last.res.status = 409
    /\ IsDeleted(products, 1)
    /\ \E v \in variants :
           /\ v.product_id = 1
           /\ v.sku = Trim(last.req.variants.items[last.res.index + 1].sku.s)

IsDeleteVariant(x) == x.op = "DELETE /variants/:id"

\* C35: after a successful delete-variant, and after a successful
\* update-variant that changes the SKU, no stored variant holds the old SKU;
\* a create-product or update-variant is answered 409 only for a SKU that a
\* stored variant (another one, for an update) holds, and one that is
\* otherwise acceptable and uses SKUs no stored variant holds is accepted.
C35_SkuReleased ==
    [][/\ ((IsDeleteVariant(last') \/ IsPutVariant(last')) /\ last'.res.status = 200)
             => \A v \in VariantById(variants, last'.id) :
                   (VariantById(variants', last'.id) = {}
                       \/ \E w \in VariantById(variants', last'.id) : w.sku # v.sku)
                     => v.sku \notin StoredSkus(variants')
       /\ (IsDeleteVariant(last') /\ last'.res.status = 200)
             => VariantById(variants', last'.id) = {}
       /\ (IsPost(last') /\ Acceptable(last'.req))
             => (last'.res.status = 409
                   <=> \E i \in 1..Len(last'.req.variants.items) :
                          Trim(last'.req.variants.items[i].sku.s) \in StoredSkus(variants))
       /\ (/\ IsPutVariant(last')
           /\ VariantById(variants, last'.id) # {}
           /\ Filled(last'.req.sku)
           /\ OtherFieldsValid(last'.req))
             => (last'.res.status = 409
                   <=> \E v \in variants : v.id # last'.id /\ v.sku = Trim(last'.req.sku.s))]_vars

\* the SKU A, created on variant 1 and released by its deletion, and the SKU
\* B, released by renaming variant 2 to C, are held again: A or B by the
\* variant of the product just created
C35_Witness ==
    /\ IsPost(last)
    /\ last.res.status = 201
    /\ Len(products) = 2
    /\ VariantById(variants, 1) = {}
    /\ \E v \in variants : v.id = 2 /\ v.product_id = 1 /\ v.sku = <<"C">>
    /\ \E v \in variants : v.id = 3 /\ v.product_id = 2 /\ v.sku \in {<<"A">>, <<"B">>}

\* which variant belongs to which product
Membership(vs) == {<<v.id, v.product_id>> : v \in vs}

\* C36: update-product, delete-product and update-variant leave every
\* product with the variant ids it had; no operation changes the product_id
\* of a variant; the variants of a product change only by create-product
\* and delete-variant.
C36_MembershipFrame ==
    [][/\ (IsPutProduct(last') \/ IsDeleteProduct(last') \/ IsPutVariant(last'))
             => Membership(variants') = Membership(variants)
       /\ \A v \in variants, w \in variants' : v.id = w.id => w.product_id = v.product_id
       /\ Membership(variants') # Membership(variants)
             => (/\ last'.res.status \in {200, 201}
                 /\ IsPost(last') \/ IsDeleteVariant(last'))]_vars

\* product 1 has been renamed and deleted and its variant 2 has just been
\* given another SKU: its variants are still 1 and 2
C36_Witness ==
    /\ IsPutVariant(last)
    /\ last.res.status = 200
    /\ last.id = 2
    /\ IsDeleted(products, 1)
    /\ products[1].name = Str(<<"Q">>)
    /\ Membership(variants) = {<<1, 1>>, <<2, 1>>}

\* C37: the create form has at most one create request in flight; while
\* one is in flight submitting is true and the form takes no submission; a
\* submission that passes validation raises submitting with its request;
\* and when the response has been handled, a success or a failure,
\* submitting is false again and a form still shown takes a submission.
C37_OneCreateInFlight ==
    /\ [](/\ Len(createPage.requests) <= 1
          /\ Len(createPage.requests) = 1 => (createPage.submitting /\ SubmitDisabled))
    /\ [][/\ Len(createPage.requests') > Len(createPage.requests)
               => (createPage.requests = <<>> /\ createPage'.submitting)
          /\ Len(createPage.requests') < Len(createPage.requests)
               => /\ ~createPage'.submitting
                  /\ createPage'.requests = <<>>
                  /\ ~SubmitDisabled']_vars

\* a create request was answered with a failure: its message is shown, no
\* request is in flight and the form takes a submission again
C37_Witness ==
    /\ createPage.mounted
    /\ createPage.error = "data.error"
    /\ createPage.requests = <<>>
    /\ ~createPage.submitting
    /\ ~SubmitDisabled
    /\ ValidationErrors(createPage) = {}

\* C38 as claimed: a VariantRow has at most one update-variant request in
\* flight, and while one is in flight the row is in edit mode (it leaves
\* edit mode only when a response has come back successful).
C38_OneSaveInFlight ==
    /\ Len(variantRow.requests) <= 1
    /\ Len(variantRow.requests) = 1 => (variantRow.editing /\ variantRow.saving)

====
